---- MODULE Spec2Model ----
(***************************************************************************)
(* Model of the P5 strategy back-testing engine: the formula / target      *)
(* enumeration, the reference calculator, the batch worker's evaluation    *)
(* loop, analyzeStrategy on the interactive side, and the App component    *)
(* that starts batch runs and consumes their results.                      *)
(*                                                                         *)
(* Conventions.  JavaScript arrays are 0-based, TLA+ sequences 1-based:    *)
(* a position or index idx of the source is kept as the source's number    *)
(* and read as seq[idx + 1].  A JavaScript string is a sequence of         *)
(* one-character strings, so that join, substring and the two string       *)
(* orders (code units, collation) are computed and not assumed.            *)
(***************************************************************************)
EXTENDS Integers, Sequences, FiniteSets, TLC

\* ------------------------------------------------------------------------
\* Bounds of the model (not program constants)
\* ------------------------------------------------------------------------
\* longest draw sequence handed to the evaluators
MaxDraws == 4


\* largest lookback of the configurations the evaluators are applied to
MaxEvalLookback == 2
\* longest draw sequence handed to a complete batch run
MaxBatchDraws == 2

\* longest runs of wins and of losses, and longest free tail, of the long
\* outcome sequences handed to the evaluators
MaxWinRun == 10

MaxLossRun == 4

MaxTail == 3

\* the number of draws of the sequences on which every formula is evaluated
MaxRefDraws == 2

\* the number of calls of runAnalysis in one behaviour of the App component
MaxRuns == 3

\* the number of leading entries of a posted result list that are carried
MaxResultsHead == 2

\* ------------------------------------------------------------------------
\* Program constants
\* ------------------------------------------------------------------------
WIN_PROFIT == 606
LOSE_COST == -384
OVERHEAT_THRESHOLD == 8
POS_NAMES == <<"wan", "qian", "bai", "shi", "ge">>
OFFSETS == <<0, 1, 2, 3, 4>>
LOOKBACKS == <<1, 2, 3, 4, 5, 6, 7, 8, 9, 10, 11, 12>>
positions == <<0, 1, 2, 3, 4>>
OpSymbols == <<"+", "-", "*">>

\* ------------------------------------------------------------------------
\* Generic helpers
\* ------------------------------------------------------------------------
Abs(x) == IF x < 0 THEN -x ELSE x

Max(a, b) == IF a > b THEN a ELSE b

Min(a, b) == IF a < b THEN a ELSE b

Range(s) == {s[k] : k \in 1..Len(s)}

RECURSIVE Flatten(_)
Flatten(ss) == IF ss = <<>> THEN <<>> ELSE Head(ss) \o Flatten(Tail(ss))

RECURSIVE SumSeq(_)
SumSeq(s) == IF s = <<>> THEN 0 ELSE Head(s) + SumSeq(Tail(s))

\* Array.prototype.slice(from) on a 0-based array
Slice(arr, from) == SubSeq(arr, from + 1, Len(arr))

\* ------------------------------------------------------------------------
\* Strings: characters, decimal formatting, join, the two orders
\* ------------------------------------------------------------------------
DigitChars == <<"0", "1", "2", "3", "4", "5", "6", "7", "8", "9">>

DigitChar(d) == DigitChars[d + 1]

\* /\d/ on one character
IsDigitChar(c) == c \in Range(DigitChars)

\* Number(c) for a digit character
DigitValue(c) == CHOOSE d \in 0..9 : DigitChar(d) = c

\* /^\d*$/ on a string
AllDigits(str) == \A k \in 1..Len(str) : IsDigitChar(str[k])

\* String(n) for a non-negative integer
RECURSIVE NumToStr(_)
NumToStr(n) == IF n < 10 THEN <<DigitChar(n)>>
               ELSE NumToStr(n \div 10) \o <<DigitChar(n % 10)>>

\* numbers.join('')
RECURSIVE JoinNums(_)
JoinNums(ns) == IF ns = <<>> THEN <<>> ELSE NumToStr(Head(ns)) \o JoinNums(Tail(ns))

\* the characters of a formula type tag, '1-Pos' .. '5-Pos'
TypeStr(type) == <<DigitChar(type), "-", "P", "o", "s">>

\* the characters issue identifiers are made of in this model
IssueChars == Range(DigitChars) \cup {"B", "a"}

\* UTF-16 code unit of a character (the order of Array.prototype.sort())
CodeUnit(c) ==
    IF c \in Range(DigitChars) THEN 48 + (CHOOSE d \in 0..9 : DigitChar(d) = c)
    ELSE IF c = "B" THEN 66 ELSE 97

\* collation rank of a character (the order of String.prototype.localeCompare):
\* digits sort before letters, and letters alphabetically whatever their case
CollationRank(c) ==
    IF c \in Range(DigitChars) THEN CHOOSE d \in 0..9 : DigitChar(d) = c
    ELSE IF c = "a" THEN 10 ELSE 11

\* a < b by UTF-16 code units, the default comparison of Array.prototype.sort()
RECURSIVE CodeUnitLess(_, _)
CodeUnitLess(a, b) ==
    IF b = <<>> THEN FALSE
    ELSE IF a = <<>> THEN TRUE
    ELSE IF CodeUnit(Head(a)) # CodeUnit(Head(b)) THEN CodeUnit(Head(a)) < CodeUnit(Head(b))
    ELSE CodeUnitLess(Tail(a), Tail(b))

\* a.localeCompare(b): negative, zero or positive
RECURSIVE localeCompare(_, _)
localeCompare(a, b) ==
    IF a = <<>> /\ b = <<>> THEN 0
    ELSE IF a = <<>> THEN -1
    ELSE IF b = <<>> THEN 1
    ELSE IF CollationRank(Head(a)) < CollationRank(Head(b)) THEN -1
    ELSE IF CollationRank(Head(a)) > CollationRank(Head(b)) THEN 1
    ELSE localeCompare(Tail(a), Tail(b))

\* issue.substring(0, 4)
Substring04(s) == SubSeq(s, 1, Min(4, Len(s)))

\* ------------------------------------------------------------------------
\* Formula and target-group enumeration
\* ------------------------------------------------------------------------
PrependAll(v, seqs) == [j \in 1..Len(seqs) |-> <<v>> \o seqs[j]]

\* a variant of getCombinations: arr.slice(i) in place of arr.slice(i + 1)
RECURSIVE getCombinations_SliceI(_, _)
getCombinations_SliceI(arr, k) ==
    IF k = 0 THEN << <<>> >>
    ELSE Flatten([i \in 1..Len(arr) |->
                     PrependAll(arr[i], getCombinations_SliceI(Slice(arr, i - 1), k - 1))])

\* arr.flatMap((v, i) => getCombinations(arr.slice(i + 1), k - 1).map(c => [v, ...c]))
RECURSIVE getCombinations(_, _)
getCombinations(arr, k) ==
    IF k = 0 THEN << <<>> >>
    ELSE Flatten([i \in 1..Len(arr) |->
                     PrependAll(arr[i], getCombinations(Slice(arr, i), k - 1))])

RECURSIVE getOpPermutations(_)
getOpPermutations(length) ==
    IF length = 1 THEN [j \in 1..Len(OpSymbols) |-> <<OpSymbols[j]>>]
    ELSE Flatten([j \in 1..Len(OpSymbols) |->
                     PrependAll(OpSymbols[j], getOpPermutations(length - 1))])

\* the display name of a formula: position names interleaved with operators
RECURSIVE FormulaName(_, _)
FormulaName(inputs, ops) ==
    IF ops = <<>> THEN <<POS_NAMES[Head(inputs) + 1]>>
    ELSE <<POS_NAMES[Head(inputs) + 1], Head(ops)>> \o FormulaName(Tail(inputs), Tail(ops))

Formula(type, inputs, ops) ==
    [type |-> type, inputs |-> inputs, ops |-> ops, name |-> FormulaName(inputs, ops)]

\* inputsList.forEach(inputs => opsList.forEach(ops => formulas.push(...)))
FormulasOf(type, inputsList, opsList) ==
    Flatten([a \in 1..Len(inputsList) |->
                [b \in 1..Len(opsList) |-> Formula(type, inputsList[a], opsList[b])]])

targetGroups == getCombinations(positions, 3)

formulas ==
    [k \in 1..Len(positions) |-> Formula(1, <<positions[k]>>, <<>>)]
    \o FormulasOf(2, getCombinations(positions, 2), getOpPermutations(1))
    \o FormulasOf(3, getCombinations(positions, 3), getOpPermutations(2))
    \o FormulasOf(4, getCombinations(positions, 4), getOpPermutations(3))
    \o FormulasOf(5, <<positions>>, getOpPermutations(4))

\* ------------------------------------------------------------------------
\* Shared pieces of a StrategyStats value
\* ------------------------------------------------------------------------
\* (m[k] || 0) + 1 on a histogram object keyed by streak length
IncCount(m, k) == IF k \in DOMAIN m THEN [m EXCEPT ![k] = @ + 1] ELSE (k :> 1) @@ m

EmptyCounts == [k \in {} |-> 0]

\* Object.keys(annualMap).sort(): the keys in ascending order of code units
RECURSIVE InsertKey(_, _)
InsertKey(x, sorted) ==
    IF sorted = <<>> THEN <<x>>
    ELSE IF CodeUnitLess(x, Head(sorted)) THEN <<x>> \o sorted
    ELSE <<Head(sorted)>> \o InsertKey(x, Tail(sorted))

RECURSIVE SortKeys(_)
SortKeys(keys) ==
    IF keys = <<>> THEN <<>>
    ELSE InsertKey(keys[Len(keys)], SortKeys(SubSeq(keys, 1, Len(keys) - 1)))

\* entries.sort((a, b) => a.year.localeCompare(b.year)): a stable sort
RECURSIVE InsertByYear(_, _)
InsertByYear(x, sorted) ==
    IF sorted = <<>> THEN <<x>>
    ELSE IF localeCompare(x.year, Head(sorted).year) < 0 THEN <<x>> \o sorted
    ELSE <<Head(sorted)>> \o InsertByYear(x, Tail(sorted))

RECURSIVE SortByYear(_)
SortByYear(entries) ==
    IF entries = <<>> THEN <<>>
    ELSE InsertByYear(entries[Len(entries)],
                      SortByYear(SubSeq(entries, 1, Len(entries) - 1)))

\* A double that is a quotient of two integers is modelled as the exact
\* quotient in lowest terms: equal quotients give equal doubles.
RECURSIVE Gcd(_, _)
Gcd(a, b) == IF b = 0 THEN a ELSE Gcd(b, a % b)

Quotient(n, d) == [num |-> n \div Gcd(n, d), den |-> d \div Gcd(n, d)]

\* a variant of WinRate: the rate per thousand
WinRate_PerMille(winDraws, count) ==
    IF count > 0 THEN Quotient(winDraws * 1000, count) ELSE Quotient(0, 1)

\* (winDraws / count) * 100, or 0 when count is 0
WinRate(winDraws, count) ==
    IF count > 0 THEN Quotient(winDraws * 100, count) ELSE Quotient(0, 1)

\* Number((grossProfit / grossLoss).toFixed(3)), in thousandths, or grossProfit
\* itself when grossLoss is 0
ProfitRatio(grossProfit, grossLoss) ==
    IF grossLoss = 0 THEN grossProfit * 1000
    ELSE (2 * grossProfit * 1000 + grossLoss) \div (2 * grossLoss)

\* survivalPeriods.reduce((a, b) => a + b, 0) / survivalPeriods.length, or 0
AvgPeriods(periods) ==
    IF Len(periods) > 0 THEN Quotient(SumSeq(periods), Len(periods)) ELSE Quotient(0, 1)

\* ------------------------------------------------------------------------
\* The batch worker (workerCode): one configuration of the nested loops
\* ------------------------------------------------------------------------
\* storing x into an Int8Array element
ToInt8(x) == ((x + 128) % 256) - 128

\* for (k = 0; k < form.ops.length; k++) { ... t += val / t -= val / t *= val }
RECURSIVE W_OpLoop(_, _, _, _)
W_OpLoop(k, t, form, srcNum) ==
    IF k >= Len(form.ops) THEN t
    ELSE LET val == srcNum[form.inputs[k + 2] + 1]
             op == form.ops[k + 1]
         IN  W_OpLoop(k + 1,
                      IF op = "+" THEN t + val ELSE IF op = "-" THEN t - val ELSE t * val,
                      form, srcNum)

\* a variant of W_FormulaValue: in a formula of three positions a product
\* binds tighter than the sum or difference before it
W_FormulaValue_Precedence(form, srcNum) ==
    IF form.type = 1 THEN srcNum[form.inputs[1] + 1]
    ELSE IF form.type = 2 THEN
        LET v1 == srcNum[form.inputs[1] + 1]
            v2 == srcNum[form.inputs[2] + 1]
        IN  IF form.ops[1] = "+" THEN v1 + v2
            ELSE IF form.ops[1] = "-" THEN v1 - v2 ELSE v1 * v2
    ELSE IF form.type = 3 THEN
        LET t0 == srcNum[form.inputs[1] + 1]
            v2 == srcNum[form.inputs[2] + 1]
            v3 == srcNum[form.inputs[3] + 1]
            t1 == IF form.ops[1] = "+" THEN t0 + v2
                  ELSE IF form.ops[1] = "-" THEN t0 - v2 ELSE t0 * v2
        IN  IF form.ops[2] = "*" /\ form.ops[1] = "+" THEN t0 + v2 * v3
            ELSE IF form.ops[2] = "*" /\ form.ops[1] = "-" THEN t0 - v2 * v3
            ELSE IF form.ops[2] = "+" THEN t1 + v3
            ELSE IF form.ops[2] = "-" THEN t1 - v3
            ELSE t1 * v3
    ELSE W_OpLoop(0, srcNum[form.inputs[1] + 1], form, srcNum)

\* the inline calculation of sum from the numbers of the source draw
W_FormulaValue(form, srcNum) ==
    IF form.type = 1 THEN srcNum[form.inputs[1] + 1]
    ELSE IF form.type = 2 THEN
        LET v1 == srcNum[form.inputs[1] + 1]
            v2 == srcNum[form.inputs[2] + 1]
        IN  IF form.ops[1] = "+" THEN v1 + v2
            ELSE IF form.ops[1] = "-" THEN v1 - v2 ELSE v1 * v2
    ELSE IF form.type = 3 THEN
        LET t0 == srcNum[form.inputs[1] + 1]
            t1 == IF form.ops[1] = "+" THEN t0 + srcNum[form.inputs[2] + 1]
                  ELSE IF form.ops[1] = "-" THEN t0 - srcNum[form.inputs[2] + 1]
                  ELSE t0 * srcNum[form.inputs[2] + 1]
        IN  IF form.ops[2] = "+" THEN t1 + srcNum[form.inputs[3] + 1]
            ELSE IF form.ops[2] = "-" THEN t1 - srcNum[form.inputs[3] + 1]
            ELSE t1 * srcNum[form.inputs[3] + 1]
    ELSE W_OpLoop(0, srcNum[form.inputs[1] + 1], form, srcNum)

\* refBaseArray: an Int8Array(drawCount), set for i >= lookback
refBaseArray(form, lookback, draws) ==
    [i1 \in 1..Len(draws) |->
        IF i1 - 1 >= lookback
        THEN ToInt8(Abs(W_FormulaValue(form, draws[i1 - lookback].numbers)) % 10)
        ELSE 0]

\* refA_Array: an Int8Array(drawCount), set for i >= lookback
refA_Array(refBase, offset, lookback) ==
    [i1 \in 1..Len(refBase) |->
        IF i1 - 1 >= lookback THEN ToInt8((refBase[i1] + offset) % 10) ELSE 0]

\* a variant of refB_Array: refA + 5 without the reduction modulo 10
refB_Array_NoWrap(refBase, offset, lookback) ==
    [i1 \in 1..Len(refBase) |->
        IF i1 - 1 >= lookback THEN ToInt8(((refBase[i1] + offset) % 10) + 5) ELSE 0]

\* refB_Array: an Int8Array(drawCount), set for i >= lookback
refB_Array(refBase, offset, lookback) ==
    [i1 \in 1..Len(refBase) |->
        IF i1 - 1 >= lookback THEN ToInt8((((refBase[i1] + offset) % 10) + 5) % 10) ELSE 0]

\* the three tests on n[targets[0..2]]
W_Matches(n, targets, ra, rb) ==
      (IF n[targets[1] + 1] = ra \/ n[targets[1] + 1] = rb THEN 1 ELSE 0)
    + (IF n[targets[2] + 1] = ra \/ n[targets[2] + 1] = rb THEN 1 ELSE 0)
    + (IF n[targets[3] + 1] = ra \/ n[targets[3] + 1] = rb THEN 1 ELSE 0)

\* a variant of W_IsWin: a win on at least one match
W_IsWin_AtLeastOne(n, targets, ra, rb) == W_Matches(n, targets, ra, rb) >= 1

\* const isWin = matches === 1
W_IsWin(n, targets, ra, rb) == W_Matches(n, targets, ra, rb) = 1

\* a variant of W_Profit: the loss booked with the sign of grossLoss
W_Profit_AbsLoss(isWin) == IF isWin THEN WIN_PROFIT ELSE Abs(LOSE_COST)

\* const profit = isWin ? WIN_PROFIT : LOSE_COST
W_Profit(isWin) == IF isWin THEN WIN_PROFIT ELSE LOSE_COST

\* a variant of W_ProcessedCount: without the floor at 0
W_ProcessedCount_NoFloor(drawCount, lookback) == drawCount - lookback

\* const processedCount = Math.max(0, drawCount - lookback)
W_ProcessedCount(drawCount, lookback) == Max(0, drawCount - lookback)

\* annualMap[year] of the worker: a plain object, kept as the list of its
\* entries in the order the keys were added
W_AnnualAdd(annualMap, year, profit, isWin) ==
    LET at == {k \in 1..Len(annualMap) : annualMap[k].year = year}
        map == IF at = {} THEN Append(annualMap, [year |-> year, p |-> 0, w |-> 0, c |-> 0])
               ELSE annualMap
        k == CHOOSE k \in 1..Len(map) : map[k].year = year
    IN  [map EXCEPT ![k] = [year |-> year,
                            p |-> @.p + profit,
                            w |-> @.w + (IF isWin THEN 1 ELSE 0),
                            c |-> @.c + 1]]

W_InitialAcc(drawCount) ==
    [totalProfit |-> 0, winDraws |-> 0, currentStreak |-> 0, maxWinStreak |-> 0,
     maxLoseStreak |-> 0, peakProfit |-> 0, maxDrawdown |-> 0,
     streakCounts |-> [win |-> EmptyCounts, loss |-> EmptyCounts],
     annualMap |-> <<>>,
     winHistory |-> [k \in 1..drawCount |-> 0]]

\* a variant of W_MaxDrawdown: the drawdown of the latest period
W_MaxDrawdown_Latest(dd, maxDrawdown) == dd

\* if (dd > maxDrawdown) maxDrawdown = dd
W_MaxDrawdown(dd, maxDrawdown) == IF dd > maxDrawdown THEN dd ELSE maxDrawdown

\* one iteration of the inner loop over the draws
W_Step(acc, i, draws, targets, refA, refB) ==
    LET isWin == W_IsWin(draws[i + 1].numbers, targets, refA[i + 1], refB[i + 1])
        profit == W_Profit(isWin)
        totalProfit == acc.totalProfit + profit
        peakProfit == IF totalProfit > acc.peakProfit THEN totalProfit ELSE acc.peakProfit
        dd == peakProfit - totalProfit
        cs == acc.currentStreak
        currentStreak == IF isWin THEN (IF cs > 0 THEN cs + 1 ELSE 1)
                         ELSE (IF cs < 0 THEN cs - 1 ELSE -1)
        win == IF ~isWin /\ cs > 0 THEN IncCount(acc.streakCounts.win, cs)
               ELSE acc.streakCounts.win
        loss == IF isWin /\ cs < 0 THEN IncCount(acc.streakCounts.loss, -cs)
                ELSE acc.streakCounts.loss
    IN  [totalProfit |-> totalProfit,
         winDraws |-> IF isWin THEN acc.winDraws + 1 ELSE acc.winDraws,
         currentStreak |-> currentStreak,
         maxWinStreak |-> IF isWin /\ currentStreak > acc.maxWinStreak
                          THEN currentStreak ELSE acc.maxWinStreak,
         maxLoseStreak |-> IF ~isWin /\ -currentStreak > acc.maxLoseStreak
                           THEN -currentStreak ELSE acc.maxLoseStreak,
         peakProfit |-> peakProfit,
         maxDrawdown |-> W_MaxDrawdown(dd, acc.maxDrawdown),
         streakCounts |-> [win |-> win, loss |-> loss],
         annualMap |-> W_AnnualAdd(acc.annualMap, Substring04(draws[i + 1].issue),
                                   profit, isWin),
         winHistory |-> [acc.winHistory EXCEPT ![i + 1] = IF isWin THEN 1 ELSE 0]]

\* for (let i = lookback; i < drawCount; i++) { ... }
RECURSIVE W_Loop(_, _, _, _, _, _)
W_Loop(acc, i, draws, targets, refA, refB) ==
    IF i >= Len(draws) THEN acc
    ELSE W_Loop(W_Step(acc, i, draws, targets, refA, refB), i + 1, draws, targets, refA, refB)

\* a variant of W_FinalStreak: the open streak is not flushed
W_FinalStreak_NoFlush(streakCounts, currentStreak) == streakCounts

\* a variant of W_FinalStreak: the open streak is flushed under length 1
W_FinalStreak_UnderOne(streakCounts, currentStreak) ==
    IF currentStreak > 0
    THEN [streakCounts EXCEPT !.win = IncCount(@, 1)]
    ELSE IF currentStreak < 0
    THEN [streakCounts EXCEPT !.loss = IncCount(@, 1)]
    ELSE streakCounts

\* the final streak, flushed into its histogram
W_FinalStreak(streakCounts, currentStreak) ==
    IF currentStreak > 0
    THEN [streakCounts EXCEPT !.win = IncCount(@, currentStreak)]
    ELSE IF currentStreak < 0
    THEN [streakCounts EXCEPT !.loss = IncCount(@, -currentStreak)]
    ELSE streakCounts

\* for (j = i + 1; j < drawCount; j++) { simPnL += ...; simCount++; if (simPnL <= -1000) break; }
RECURSIVE W_SimLoop(_, _, _, _)
W_SimLoop(j, simPnL, simCount, winHistory) ==
    IF j >= Len(winHistory) THEN simCount
    ELSE LET pnl == simPnL + (IF winHistory[j + 1] = 1 THEN WIN_PROFIT ELSE LOSE_COST)
         IN  IF pnl <= -1000 THEN simCount + 1
             ELSE W_SimLoop(j + 1, pnl, simCount + 1, winHistory)

\* a variant of W_Survival: the simulation starts at the break itself
RECURSIVE W_Survival_FromBreak(_, _, _, _)
W_Survival_FromBreak(i, tempStreak, survivalPeriods, winHistory) ==
    IF i >= Len(winHistory) THEN survivalPeriods
    ELSE IF winHistory[i + 1] = 1
    THEN W_Survival_FromBreak(i + 1, (IF tempStreak < 0 THEN 0 ELSE tempStreak) + 1,
                              survivalPeriods, winHistory)
    ELSE W_Survival_FromBreak(i + 1, -1,
                              IF tempStreak >= 9
                              THEN Append(survivalPeriods, W_SimLoop(i, 0, 0, winHistory))
                              ELSE survivalPeriods,
                              winHistory)

\* a variant of W_Survival: a win run still open at the end is a break too
RECURSIVE W_Survival_OpenRunBreaks(_, _, _, _)
W_Survival_OpenRunBreaks(i, tempStreak, survivalPeriods, winHistory) ==
    IF i >= Len(winHistory)
    THEN (IF tempStreak >= 9 THEN Append(survivalPeriods, 0) ELSE survivalPeriods)
    ELSE IF winHistory[i + 1] = 1
    THEN W_Survival_OpenRunBreaks(i + 1, (IF tempStreak < 0 THEN 0 ELSE tempStreak) + 1,
                                  survivalPeriods, winHistory)
    ELSE W_Survival_OpenRunBreaks(i + 1, -1,
                                  IF tempStreak >= 9
                                  THEN Append(survivalPeriods,
                                              W_SimLoop(i + 1, 0, 0, winHistory))
                                  ELSE survivalPeriods,
                                  winHistory)

\* a variant of W_Survival: a run of eight wins is already a break
RECURSIVE W_Survival_AfterEight(_, _, _, _)
W_Survival_AfterEight(i, tempStreak, survivalPeriods, winHistory) ==
    IF i >= Len(winHistory) THEN survivalPeriods
    ELSE IF winHistory[i + 1] = 1
    THEN W_Survival_AfterEight(i + 1, (IF tempStreak < 0 THEN 0 ELSE tempStreak) + 1,
                               survivalPeriods, winHistory)
    ELSE W_Survival_AfterEight(i + 1, -1,
                               IF tempStreak >= 8
                               THEN Append(survivalPeriods, W_SimLoop(i + 1, 0, 0, winHistory))
                               ELSE survivalPeriods,
                               winHistory)

\* the survival loop: survivalPeriods after the pass from i on
RECURSIVE W_Survival(_, _, _, _)
W_Survival(i, tempStreak, survivalPeriods, winHistory) ==
    IF i >= Len(winHistory) THEN survivalPeriods
    ELSE IF winHistory[i + 1] = 1
    THEN W_Survival(i + 1, (IF tempStreak < 0 THEN 0 ELSE tempStreak) + 1,
                    survivalPeriods, winHistory)
    ELSE W_Survival(i + 1, -1,
                    IF tempStreak >= 9
                    THEN Append(survivalPeriods, W_SimLoop(i + 1, 0, 0, winHistory))
                    ELSE survivalPeriods,
                    winHistory)

\* Object.keys(annualMap).sort().map(y => ({year, profit, winCount, totalCount}))
W_AnnualStats(annualMap) ==
    LET keys == SortKeys([k \in 1..Len(annualMap) |-> annualMap[k].year])
        Of(y) == annualMap[CHOOSE k \in 1..Len(annualMap) : annualMap[k].year = y]
    IN  [k \in 1..Len(keys) |->
            [year |-> keys[k], profit |-> Of(keys[k]).p,
             winCount |-> Of(keys[k]).w, totalCount |-> Of(keys[k]).c]]

\* a variant of W_Config: the id as it was before lookbacks were enumerated
W_Config_NoLookbackInId(form, targets, offset, lookback) ==
    [id |-> TypeStr(form.type) \o <<"-">> \o JoinNums(form.inputs) \o <<"-">>
            \o form.ops \o <<"-", "T">> \o JoinNums(targets)
            \o <<"-", "K">> \o NumToStr(offset),
     type |-> form.type,
     inputIndices |-> form.inputs,
     operators |-> form.ops,
     targetIndices |-> targets,
     offset |-> offset,
     lookback |-> lookback,
     name |-> form.name
              \o (IF offset > 0 THEN <<"+">> \o NumToStr(offset) ELSE <<>>)
              \o (IF lookback > 1 THEN <<"(hui">> \o NumToStr(lookback) \o <<")">> ELSE <<>>)]

\* the config object of a result entry
W_Config(form, targets, offset, lookback) ==
    [id |-> TypeStr(form.type) \o <<"-">> \o JoinNums(form.inputs) \o <<"-">>
            \o form.ops \o <<"-", "T">> \o JoinNums(targets)
            \o <<"-", "K">> \o NumToStr(offset) \o <<"-", "L">> \o NumToStr(lookback),
     type |-> form.type,
     inputIndices |-> form.inputs,
     operators |-> form.ops,
     targetIndices |-> targets,
     offset |-> offset,
     lookback |-> lookback,
     name |-> form.name
              \o (IF offset > 0 THEN <<"+">> \o NumToStr(offset) ELSE <<>>)
              \o (IF lookback > 1 THEN <<"(hui">> \o NumToStr(lookback) \o <<")">> ELSE <<>>)]

\* a variant of W_IsOverheated: only a run longer than eight
W_IsOverheated_Above(currentStreak) == currentStreak > 8

\* isOverheated: currentStreak >= 8
W_IsOverheated(currentStreak) == currentStreak >= 8

\* the locals of one analysis after its inner loop over the draws
W_Analysis(form, lookback, offset, targets, draws) ==
    LET refBase == refBaseArray(form, lookback, draws)
    IN  W_Loop(W_InitialAcc(Len(draws)), lookback, draws, targets,
               refA_Array(refBase, offset, lookback), refB_Array(refBase, offset, lookback))

\* the entry pushed to results for (form, lookback, offset, targets), from the
\* locals acc of its analysis
W_Result(form, lookback, offset, targets, draws, acc) ==
    LET drawCount == Len(draws)
        survivalPeriods == W_Survival(lookback, 0, <<>>, acc.winHistory)
        processedCount == W_ProcessedCount(drawCount, lookback)
        grossProfit == acc.winDraws * WIN_PROFIT
        grossLoss == (processedCount - acc.winDraws) * Abs(LOSE_COST)
    IN  [config |-> W_Config(form, targets, offset, lookback),
         totalDraws |-> processedCount,
         winDraws |-> acc.winDraws,
         winRate |-> WinRate(acc.winDraws, processedCount),
         totalProfit |-> acc.totalProfit,
         profitRatio |-> ProfitRatio(grossProfit, grossLoss),
         maxWinStreak |-> acc.maxWinStreak,
         maxLoseStreak |-> acc.maxLoseStreak,
         maxDrawdown |-> acc.maxDrawdown,
         currentStreak |-> acc.currentStreak,
         isOverheated |-> W_IsOverheated(acc.currentStreak),
         annualStats |-> W_AnnualStats(acc.annualMap),
         streakCounts |-> W_FinalStreak(acc.streakCounts, acc.currentStreak),
         survivalStats |-> [count |-> Len(survivalPeriods),
                            periods |-> survivalPeriods,
                            avgPeriods |-> AvgPeriods(survivalPeriods)]]

W_Entry(form, lookback, offset, targets, draws) ==
    W_Result(form, lookback, offset, targets, draws,
             W_Analysis(form, lookback, offset, targets, draws))

\* ------------------------------------------------------------------------
\* The interactive side: getReferenceBase, analyzeStrategy
\* ------------------------------------------------------------------------
\* for (k = 0; k < ops.length; k++) { if '+' ... else if '-' ... else if '*' ... }
RECURSIVE OpLoop(_, _, _, _, _)
OpLoop(k, temp, idx, ops, numbers) ==
    IF k >= Len(ops) THEN temp
    ELSE LET val == numbers[idx[k + 2] + 1]
             op == ops[k + 1]
         IN  OpLoop(k + 1,
                    IF op = "+" THEN temp + val
                    ELSE IF op = "-" THEN temp - val
                    ELSE IF op = "*" THEN temp * val
                    ELSE temp,
                    idx, ops, numbers)

getReferenceBase(numbers, config) ==
    LET idx == config.inputIndices
        ops == config.operators
        sum ==
            IF config.type = 1 THEN numbers[idx[1] + 1]
            ELSE IF config.type = 2 THEN
                LET v1 == numbers[idx[1] + 1]
                    v2 == numbers[idx[2] + 1]
                IN  IF ops[1] = "+" THEN v1 + v2
                    ELSE IF ops[1] = "-" THEN v1 - v2 ELSE v1 * v2
            ELSE IF config.type = 3 THEN
                LET v2 == numbers[idx[2] + 1]
                    v3 == numbers[idx[3] + 1]
                    temp == IF ops[1] = "+" THEN numbers[idx[1] + 1] + v2
                            ELSE IF ops[1] = "-" THEN numbers[idx[1] + 1] - v2
                            ELSE numbers[idx[1] + 1] * v2
                IN  IF ops[2] = "+" THEN temp + v3
                    ELSE IF ops[2] = "-" THEN temp - v3 ELSE temp * v3
            ELSE IF config.type = 4 \/ config.type = 5
            THEN OpLoop(0, numbers[idx[1] + 1], idx, ops, numbers)
            ELSE 0
    IN  (Abs(sum) + config.offset) % 10

\* a variant of matchCount: only refA counts as a match
RECURSIVE matchCount_OnlyRefA(_, _, _, _)
matchCount_OnlyRefA(numbers, targetIndices, refA, refB) ==
    IF targetIndices = <<>> THEN 0
    ELSE (IF numbers[Head(targetIndices) + 1] = refA THEN 1 ELSE 0)
         + matchCount_OnlyRefA(numbers, Tail(targetIndices), refA, refB)

\* for (const tidx of targetIndices) if (n === refA || n === refB) matchCount++
RECURSIVE matchCount(_, _, _, _)
matchCount(numbers, targetIndices, refA, refB) ==
    IF targetIndices = <<>> THEN 0
    ELSE (IF numbers[Head(targetIndices) + 1] = refA \/ numbers[Head(targetIndices) + 1] = refB
          THEN 1 ELSE 0)
         + matchCount(numbers, Tail(targetIndices), refA, refB)

\* const isWin = matchCount === 1, for period i of analyzeStrategy
IsWin(config, draws, i) ==
    LET refA == getReferenceBase(draws[i - config.lookback + 1].numbers, config)
        refB == (refA + 5) % 10
    IN  matchCount(draws[i + 1].numbers, config.targetIndices, refA, refB) = 1

\* const profit = isWin ? WIN_PROFIT : LOSE_COST
Profit(isWin) == IF isWin THEN WIN_PROFIT ELSE LOSE_COST

\* const processedDrawsCount = Math.max(0, drawCount - lookback)
ProcessedDrawsCount(drawCount, lookback) == Max(0, drawCount - lookback)

\* annualMap of analyzeStrategy: a Map, whose entries keep insertion order
AnnualAdd(annualMap, year, profit, isWin) ==
    LET at == {k \in 1..Len(annualMap) : annualMap[k].year = year}
        map == IF at = {}
               THEN Append(annualMap, [year |-> year, profit |-> 0, wins |-> 0, count |-> 0])
               ELSE annualMap
        k == CHOOSE k \in 1..Len(map) : map[k].year = year
    IN  [map EXCEPT ![k] = [year |-> year,
                            profit |-> @.profit + profit,
                            wins |-> @.wins + (IF isWin THEN 1 ELSE 0),
                            count |-> @.count + 1]]

InitialAcc(drawCount) ==
    [totalProfit |-> 0, winDraws |-> 0, currentStreak |-> 0, maxWinStreak |-> 0,
     maxLoseStreak |-> 0, peakProfit |-> 0, maxDrawdown |-> 0,
     streakCounts |-> [win |-> EmptyCounts, loss |-> EmptyCounts],
     annualMap |-> <<>>,
     winHistory |-> [k \in 1..drawCount |-> FALSE]]

\* one iteration of the loop of analyzeStrategy
AnalyzeStep(acc, i, config, draws) ==
    LET isWin == IsWin(config, draws, i)
        profit == Profit(isWin)
        totalProfit == acc.totalProfit + profit
        peakProfit == IF totalProfit > acc.peakProfit THEN totalProfit ELSE acc.peakProfit
        drawdown == peakProfit - totalProfit
        cs == acc.currentStreak
        currentStreak == IF isWin THEN (IF cs > 0 THEN cs + 1 ELSE 1)
                         ELSE (IF cs < 0 THEN cs - 1 ELSE -1)
        win == IF ~isWin /\ ~(cs < 0) /\ cs > 0 THEN IncCount(acc.streakCounts.win, cs)
               ELSE acc.streakCounts.win
        loss == IF isWin /\ ~(cs > 0) /\ cs < 0 THEN IncCount(acc.streakCounts.loss, Abs(cs))
                ELSE acc.streakCounts.loss
    IN  [totalProfit |-> totalProfit,
         winDraws |-> IF isWin THEN acc.winDraws + 1 ELSE acc.winDraws,
         currentStreak |-> currentStreak,
         maxWinStreak |-> IF isWin /\ currentStreak > acc.maxWinStreak
                          THEN currentStreak ELSE acc.maxWinStreak,
         maxLoseStreak |-> IF ~isWin /\ Abs(currentStreak) > acc.maxLoseStreak
                           THEN Abs(currentStreak) ELSE acc.maxLoseStreak,
         peakProfit |-> peakProfit,
         maxDrawdown |-> IF drawdown > acc.maxDrawdown THEN drawdown ELSE acc.maxDrawdown,
         streakCounts |-> [win |-> win, loss |-> loss],
         annualMap |-> AnnualAdd(acc.annualMap, Substring04(draws[i + 1].issue),
                                 profit, isWin),
         winHistory |-> [acc.winHistory EXCEPT ![i + 1] = isWin]]

\* for (let i = lookback; i < drawCount; i++) { ... }
RECURSIVE AnalyzeLoop(_, _, _, _)
AnalyzeLoop(acc, i, config, draws) ==
    IF i >= Len(draws) THEN acc
    ELSE AnalyzeLoop(AnalyzeStep(acc, i, config, draws), i + 1, config, draws)

\* the flush of the still-open streak after the loop
FinalStreak(streakCounts, currentStreak) ==
    IF currentStreak > 0
    THEN [streakCounts EXCEPT !.win = IncCount(@, currentStreak)]
    ELSE IF currentStreak < 0
    THEN [streakCounts EXCEPT !.loss = IncCount(@, Abs(currentStreak))]
    ELSE streakCounts

RECURSIVE SimLoop(_, _, _, _)
SimLoop(j, simPnL, simCount, winHistory) ==
    IF j >= Len(winHistory) THEN simCount
    ELSE LET pnl == simPnL + (IF winHistory[j + 1] THEN WIN_PROFIT ELSE LOSE_COST)
         IN  IF pnl <= -1000 THEN simCount + 1
             ELSE SimLoop(j + 1, pnl, simCount + 1, winHistory)

RECURSIVE Survival(_, _, _, _)
Survival(i, tempStreak, survivalPeriods, winHistory) ==
    IF i >= Len(winHistory) THEN survivalPeriods
    ELSE IF winHistory[i + 1]
    THEN Survival(i + 1, (IF tempStreak < 0 THEN 0 ELSE tempStreak) + 1,
                  survivalPeriods, winHistory)
    ELSE Survival(i + 1, -1,
                  IF tempStreak >= 9
                  THEN Append(survivalPeriods, SimLoop(i + 1, 0, 0, winHistory))
                  ELSE survivalPeriods,
                  winHistory)

\* Array.from(annualMap.entries()).map(...).sort((a, b) => a.year.localeCompare(b.year))
AnnualStats(annualMap) ==
    SortByYear([k \in 1..Len(annualMap) |->
                   [year |-> annualMap[k].year, profit |-> annualMap[k].profit,
                    winCount |-> annualMap[k].wins, totalCount |-> annualMap[k].count]])

\* the locals of analyzeStrategy after its loop over the draws
AnalyzeAcc(config, draws) ==
    AnalyzeLoop(InitialAcc(Len(draws)), config.lookback, config, draws)

\* the value analyzeStrategy returns, from the locals acc of its loop
AnalyzeResult(config, draws, acc) ==
    LET drawCount == Len(draws)
        lookback == config.lookback
        survivalPeriods == Survival(lookback, 0, <<>>, acc.winHistory)
        processedDrawsCount == ProcessedDrawsCount(drawCount, lookback)
        grossProfit == acc.winDraws * WIN_PROFIT
        grossLoss == (processedDrawsCount - acc.winDraws) * Abs(LOSE_COST)
    IN  [config |-> config,
         totalDraws |-> processedDrawsCount,
         winDraws |-> acc.winDraws,
         winRate |-> WinRate(acc.winDraws, processedDrawsCount),
         totalProfit |-> acc.totalProfit,
         profitRatio |-> ProfitRatio(grossProfit, grossLoss),
         maxWinStreak |-> acc.maxWinStreak,
         maxLoseStreak |-> acc.maxLoseStreak,
         maxDrawdown |-> acc.maxDrawdown,
         currentStreak |-> acc.currentStreak,
         isOverheated |-> acc.currentStreak >= OVERHEAT_THRESHOLD,
         annualStats |-> AnnualStats(acc.annualMap),
         streakCounts |-> FinalStreak(acc.streakCounts, acc.currentStreak),
         survivalStats |-> [count |-> Len(survivalPeriods),
                            periods |-> survivalPeriods,
                            avgPeriods |-> AvgPeriods(survivalPeriods)]]

analyzeStrategy(config, draws) == AnalyzeResult(config, draws, AnalyzeAcc(config, draws))

\* one iteration of the loop of generateHistory
\* a variant of HistoryStep: a period with at least one match is a win
HistoryStep_AtLeastOne(history, i, config, draws) ==
    LET refA == getReferenceBase(draws[i - config.lookback + 1].numbers, config)
        refB == (refA + 5) % 10
        isWin == matchCount(draws[i + 1].numbers, config.targetIndices, refA, refB) >= 1
        profit == IF isWin THEN WIN_PROFIT ELSE LOSE_COST
        cumulativeProfit == (IF history = <<>> THEN 0 ELSE history[Len(history)].cumulativeProfit)
                            + profit
    IN  Append(history, [issue |-> draws[i + 1].issue, isWin |-> isWin, profit |-> profit,
                         cumulativeProfit |-> cumulativeProfit])

HistoryStep(history, i, config, draws) ==
    LET refA == getReferenceBase(draws[i - config.lookback + 1].numbers, config)
        refB == (refA + 5) % 10
        isWin == matchCount(draws[i + 1].numbers, config.targetIndices, refA, refB) = 1
        profit == IF isWin THEN WIN_PROFIT ELSE LOSE_COST
        cumulativeProfit == (IF history = <<>> THEN 0 ELSE history[Len(history)].cumulativeProfit)
                            + profit
    IN  Append(history, [issue |-> draws[i + 1].issue, isWin |-> isWin, profit |-> profit,
                         cumulativeProfit |-> cumulativeProfit])

RECURSIVE HistoryLoop(_, _, _, _)
HistoryLoop(history, i, config, draws) ==
    IF i >= Len(draws) THEN history
    ELSE HistoryLoop(HistoryStep(history, i, config, draws), i + 1, config, draws)

generateHistory(config, draws) == HistoryLoop(<<>>, config.lookback, config, draws)

\* ------------------------------------------------------------------------
\* The main thread: generateStrategies
\* ------------------------------------------------------------------------
\* enum FormulaType: the string value of each member
FormulaType ==
    [ONE_POS   |-> <<"1", "-", "P", "o", "s">>,
     TWO_POS   |-> <<"2", "-", "P", "o", "s">>,
     THREE_POS |-> <<"3", "-", "P", "o", "s">>,
     FOUR_POS  |-> <<"4", "-", "P", "o", "s">>,
     FIVE_POS  |-> <<"5", "-", "P", "o", "s">>]

\* a variant of addVariations_Config: the name without the lookback suffix
addVariations_Config_NoLookbackSuffix(type, inputs, ops, baseName, targets, offset, lookback) ==
    [id |-> type \o <<"-">> \o JoinNums(inputs) \o <<"-">> \o ops
            \o <<"-", "T">> \o JoinNums(targets)
            \o <<"-", "K">> \o NumToStr(offset) \o <<"-", "L">> \o NumToStr(lookback),
     type |-> type,
     inputIndices |-> inputs,
     operators |-> ops,
     targetIndices |-> targets,
     offset |-> offset,
     lookback |-> lookback,
     name |-> baseName \o (IF offset > 0 THEN <<"+">> \o NumToStr(offset) ELSE <<>>)]

\* the object addVariations pushes for targets, offset and lookback
addVariations_Config(type, inputs, ops, baseName, targets, offset, lookback) ==
    [id |-> type \o <<"-">> \o JoinNums(inputs) \o <<"-">> \o ops
            \o <<"-", "T">> \o JoinNums(targets)
            \o <<"-", "K">> \o NumToStr(offset) \o <<"-", "L">> \o NumToStr(lookback),
     type |-> type,
     inputIndices |-> inputs,
     operators |-> ops,
     targetIndices |-> targets,
     offset |-> offset,
     lookback |-> lookback,
     name |-> baseName
              \o (IF offset > 0 THEN <<"+">> \o NumToStr(offset) ELSE <<>>)
              \o (IF lookback > 1 THEN <<"(hui">> \o NumToStr(lookback) \o <<")">> ELSE <<>>)]

\* the arguments of one call of addVariations
Variation(type, inputs, ops, baseName) ==
    [type |-> type, inputs |-> inputs, ops |-> ops, baseName |-> baseName]

\* inputsList.forEach(inputs => opsList.forEach(ops => addVariations(...)))
\* for the formulas of two, three and four positions
TwoPosCalls(inputPairs, ops2) ==
    Flatten([a \in 1..Len(inputPairs) |-> [b \in 1..Len(ops2) |->
        LET inputs == inputPairs[a]
            ops == ops2[b]
        IN  Variation(FormulaType.TWO_POS, inputs, ops,
                      <<POS_NAMES[inputs[1] + 1], ops[1], POS_NAMES[inputs[2] + 1]>>)]])

ThreePosCalls(inputTriples, ops3) ==
    Flatten([a \in 1..Len(inputTriples) |-> [b \in 1..Len(ops3) |->
        LET inputs == inputTriples[a]
            ops == ops3[b]
        IN  Variation(FormulaType.THREE_POS, inputs, ops,
                      <<POS_NAMES[inputs[1] + 1], ops[1], POS_NAMES[inputs[2] + 1],
                        ops[2], POS_NAMES[inputs[3] + 1]>>)]])

FourPosCalls(inputQuads, ops4) ==
    Flatten([a \in 1..Len(inputQuads) |-> [b \in 1..Len(ops4) |->
        LET inputs == inputQuads[a]
            ops == ops4[b]
        IN  Variation(FormulaType.FOUR_POS, inputs, ops,
                      <<POS_NAMES[inputs[1] + 1], ops[1], POS_NAMES[inputs[2] + 1],
                        ops[2], POS_NAMES[inputs[3] + 1], ops[3],
                        POS_NAMES[inputs[4] + 1]>>)]])

FivePosCalls(inputFive, ops5) ==
    [b \in 1..Len(ops5) |->
        LET ops == ops5[b]
        IN  Variation(FormulaType.FIVE_POS, inputFive, ops,
                      <<POS_NAMES[1], ops[1], POS_NAMES[2], ops[2], POS_NAMES[3],
                        ops[3], POS_NAMES[4], ops[4], POS_NAMES[5]>>)]

\* the calls of addVariations that generateStrategies makes, in order
\* (getCombinations and getOpPermutations of the main thread are the same
\* functions as the worker's)
addVariationsCalls ==
    [k \in 1..Len(positions) |->
        Variation(FormulaType.ONE_POS, <<positions[k]>>, <<>>,
                  <<POS_NAMES[positions[k] + 1]>>)]
    \o TwoPosCalls(getCombinations(positions, 2), getOpPermutations(1))
    \o ThreePosCalls(getCombinations(positions, 3), getOpPermutations(2))
    \o FourPosCalls(getCombinations(positions, 4), getOpPermutations(3))
    \o FivePosCalls(<<0, 1, 2, 3, 4>>, getOpPermutations(4))

\* ------------------------------------------------------------------------
\* State
\* ------------------------------------------------------------------------
VARIABLES
    pc,                \* where the modelled control is
    draws,             \* the draw sequence (App state `draws`, e.data of the worker)
    sel,               \* the worker's loop indices [f, l, o, t]
    resultsLength,     \* results.length inside the worker
    summary,           \* the entry the worker pushed last
    workerWinHistory,  \* the worker's winHistory for that entry
    detailedStrategy,  \* App state `detailedStrategy`
    winHistory,        \* analyzeStrategy's winHistory for detailedStrategy
    history,           \* StrategyDetail state `history`
    results,           \* App state `results`
    loading,           \* App state `loading`
    showManualInput,   \* App state `showManualInput`
    selectedStrategy,  \* App state `selectedStrategy`
    runs,              \* the calls of runAnalysis so far, in the order they started
    analyses,          \* the last call of analyzeStrategy, if any: arguments and value
    call,              \* the call of runAnalysisWorker that a batch run belongs to
    alertShown,        \* the alert() dialog that blocks the page, or "none"
    strategies         \* the list generateStrategies builds: its loop indices,
                       \* its length and the entry pushed last

vars == <<pc, draws, sel, resultsLength, summary, workerWinHistory,
          detailedStrategy, winHistory, history,
          results, loading, showManualInput, selectedStrategy, runs, analyses, call,
          alertShown, strategies>>

\* the state of the App component that the worker and the evaluators do not touch
appVars == <<results, loading, showManualInput, selectedStrategy, runs, analyses,
            alertShown, strategies>>

\* the state of the worker and of StrategyDetail
workerVars == <<sel, resultsLength, summary, workerWinHistory, winHistory, history, call>>

None == [none |-> TRUE]

\* no call of runAnalysisWorker is followed
NoCall == [promise |-> "none", posted |-> 0, delivered |-> None, terminated |-> FALSE]

\* generateStrategies has not been called
NoStrategies ==
    [call |-> 0, t |-> 0, o |-> 0, l |-> 0, length |-> 0, last |-> None, pushed |-> None]

\* useState([]) for results: the list has no entry
NoResults == [length |-> 0, head |-> <<>>]

\* the App component after construction
AppConstructed ==
    /\ results = NoResults
    /\ loading = FALSE
    /\ showManualInput = FALSE
    /\ selectedStrategy = None
    /\ runs = <<>>
    /\ analyses = <<>>
    /\ alertShown = "none"
    /\ strategies = NoStrategies

\* ------------------------------------------------------------------------
\* Inputs of the evaluation of one configuration
\* ------------------------------------------------------------------------
DrawPool ==
    { [issue |-> <<"2", "0", "2", "4", "0", "0", "1">>, numbers |-> <<1, 2, 3, 4, 5>>],
      [issue |-> <<"B", "2", "5", "0", "0", "1">>,      numbers |-> <<6, 1, 3, 4, 5>>],
      [issue |-> <<"a", "2", "5", "0", "0", "2">>,      numbers |-> <<1, 6, 1, 0, 5>>] }

\* two draws whose second one wins by its first digit being refB
ScenarioDraws ==
    << [issue |-> <<"2", "0", "2", "4", "0", "0", "1">>, numbers |-> <<1, 2, 3, 4, 5>>],
       [issue |-> <<"2", "0", "2", "4", "0", "0", "2">>, numbers |-> <<6, 2, 3, 4, 5>>] >>

DrawSeqs == UNION {[1..n -> DrawPool] : n \in 0..MaxDraws} \cup {ScenarioDraws}

\* the formulas the evaluators are applied to, as 0-based indices into formulas:
\* one for each branch of the formula evaluation, with every operator among them
EvalFormulas == {0, 6, 40, 325}

EvalSelections ==
    {[f |-> f, l |-> l, o |-> o, t |-> t] :
        f \in EvalFormulas, l \in 0..(MaxEvalLookback - 1),
        o \in 0..(Len(OFFSETS) - 1), t \in 0..(Len(targetGroups) - 1)}

\* ------------------------------------------------------------------------
\* Spec: one configuration evaluated by the worker, then by the detail view
\* ------------------------------------------------------------------------
Init ==
    /\ pc = "input"
    /\ AppConstructed
    /\ call = NoCall
    /\ draws \in DrawSeqs
    /\ sel \in EvalSelections
    /\ resultsLength = 0
    /\ summary = None
    /\ workerWinHistory = <<>>
    /\ detailedStrategy = None
    /\ winHistory = <<>>
    /\ history = <<>>

\* the body of the worker's innermost loop at the loop indices sel
WorkerIteration ==
    /\ pc = "input"
    /\ LET form == formulas[sel.f + 1]
           lookback == LOOKBACKS[sel.l + 1]
           offset == OFFSETS[sel.o + 1]
           targets == targetGroups[sel.t + 1]
           acc == W_Analysis(form, lookback, offset, targets, draws)
       IN  /\ summary' = W_Result(form, lookback, offset, targets, draws, acc)
           /\ workerWinHistory' = acc.winHistory
    /\ pc' = "batch"
    /\ UNCHANGED <<draws, sel, resultsLength, detailedStrategy, winHistory, history>>
    /\ UNCHANGED <<appVars, call>>

\* handleSelectStrategy(summary): fullDetails = analyzeSingleStrategy(summary.config, draws)
handleSelectStrategy ==
    /\ pc = "batch"
    /\ LET acc == AnalyzeAcc(summary.config, draws)
       IN  /\ detailedStrategy' = AnalyzeResult(summary.config, draws, acc)
           /\ winHistory' = acc.winHistory
    /\ pc' = "detail"
    /\ UNCHANGED <<draws, sel, resultsLength, summary, workerWinHistory, history>>
    /\ UNCHANGED <<appVars, call>>

\* the effect of StrategyDetail: setHistory(generateHistory(strategy.config, allDraws))
StrategyDetailEffect ==
    /\ pc = "detail"
    /\ history' = generateHistory(detailedStrategy.config, draws)
    /\ pc' = "history"
    /\ UNCHANGED <<draws, sel, resultsLength, summary, workerWinHistory,
                   detailedStrategy, winHistory>>
    /\ UNCHANGED <<appVars, call>>

Next == WorkerIteration \/ handleSelectStrategy \/ StrategyDetailEffect

Spec == Init /\ [][Next]_vars

\* ------------------------------------------------------------------------
\* SpecLong: one configuration evaluated on long runs of wins and losses
\* ------------------------------------------------------------------------
\* The configuration is the one-position formula on position 4 with lookback 1,
\* offset 0 and targets {0,1,2}. Every draw has 1 at position 4, so refA = 1
\* and refB = 6 for every period; a draw wins or loses by its first three digits.
LongWin == [issue |-> <<"2", "0", "2", "4", "0", "0", "1">>, numbers |-> <<1, 2, 3, 0, 1>>]

LongLoss == [issue |-> <<"2", "0", "2", "4", "0", "0", "1">>, numbers |-> <<2, 3, 4, 0, 1>>]

Repeat(d, n) == [k \in 1..n |-> d]

\* a first draw, a run of wins, a run of losses, a run of wins, a free tail
LongDrawSeqs ==
    {<<>>} \cup
    {<<LongLoss>> \o Repeat(LongWin, a) \o Repeat(LongLoss, b) \o Repeat(LongWin, c) \o tail :
        a \in 0..MaxWinRun, b \in 0..MaxLossRun, c \in 0..MaxWinRun,
        tail \in UNION {[1..n -> {LongWin, LongLoss}] : n \in 0..MaxTail}}

InitLong ==
    /\ pc = "input"
    /\ AppConstructed
    /\ call = NoCall
    /\ draws \in LongDrawSeqs
    /\ sel = [f |-> 4, l |-> 0, o |-> 0, t |-> 0]
    /\ resultsLength = 0
    /\ summary = None
    /\ workerWinHistory = <<>>
    /\ detailedStrategy = None
    /\ winHistory = <<>>
    /\ history = <<>>

SpecLong == InitLong /\ [][Next]_vars

\* ------------------------------------------------------------------------
\* SpecRef: every formula and every offset, evaluated on one source draw
\* ------------------------------------------------------------------------
\* the numbers of the source draws: 3 followed by every mix of 3 and 9, and
\* draws with zeros, ones and all digits different
RefNumbers ==
    {n \in [1..5 -> {3, 9}] : n[1] = 3}
    \cup {<<0, 0, 0, 0, 0>>, <<1, 2, 3, 4, 5>>, <<9, 0, 7, 0, 5>>, <<0, 9, 8, 7, 6>>}

RefIssue(k) == <<"2", "0", "2", "4", "0", "0", DigitChar(k)>>

\* the draws that follow the source draw
RefFollower(k) == [issue |-> RefIssue(k), numbers |-> <<4, 7, 1, 6, 2>>]

RefDrawSeqs ==
    {<<[issue |-> RefIssue(1), numbers |-> n]>> \o [k \in 1..m |-> RefFollower(k + 1)] :
        n \in RefNumbers, m \in 0..(MaxRefDraws - 1)}

InitRef ==
    /\ pc = "input"
    /\ AppConstructed
    /\ call = NoCall
    /\ draws \in RefDrawSeqs
    /\ sel \in {[f |-> f, l |-> 0, o |-> o, t |-> 0] :
                   f \in 0..(Len(formulas) - 1), o \in 0..(Len(OFFSETS) - 1)}
    /\ resultsLength = 0
    /\ summary = None
    /\ workerWinHistory = <<>>
    /\ detailedStrategy = None
    /\ winHistory = <<>>
    /\ history = <<>>

SpecRef == InitRef /\ [][Next]_vars

\* ------------------------------------------------------------------------
\* SpecGen: generateStrategies, push by push
\* ------------------------------------------------------------------------
InitGen ==
    /\ pc = "gen"
    /\ AppConstructed
    /\ call = NoCall
    /\ draws = <<>>
    /\ sel = [f |-> 0, l |-> 0, o |-> 0, t |-> 0]
    /\ resultsLength = 0
    /\ summary = None
    /\ workerWinHistory = <<>>
    /\ detailedStrategy = None
    /\ winHistory = <<>>
    /\ history = <<>>

\* the loop indices after one pass of the innermost forEach: lookbacks
\* innermost, then offsets, then target groups, then the next call
addVariations_Next(g) ==
    IF g.l + 1 < Len(LOOKBACKS) THEN [g EXCEPT !.l = @ + 1]
    ELSE IF g.o + 1 < Len(OFFSETS) THEN [g EXCEPT !.l = 0, !.o = @ + 1]
    ELSE IF g.t + 1 < Len(targetGroups) THEN [g EXCEPT !.l = 0, !.o = 0, !.t = @ + 1]
    ELSE [g EXCEPT !.l = 0, !.o = 0, !.t = 0, !.call = @ + 1]

\* strategies.push({...}) inside addVariations
StrategiesPush ==
    /\ pc = "gen"
    /\ strategies.call < Len(addVariationsCalls)
    /\ LET v == addVariationsCalls[strategies.call + 1]
           entry == addVariations_Config(v.type, v.inputs, v.ops, v.baseName,
                                         targetGroups[strategies.t + 1],
                                         OFFSETS[strategies.o + 1],
                                         LOOKBACKS[strategies.l + 1])
       IN  strategies' =
               [addVariations_Next(strategies) EXCEPT
                   !.length = @ + 1,
                   !.last = entry,
                   !.pushed = [call |-> strategies.call, t |-> strategies.t,
                               o |-> strategies.o, l |-> strategies.l]]
    /\ UNCHANGED <<pc, draws, detailedStrategy, results, loading, showManualInput,
                   selectedStrategy, runs, analyses, alertShown, workerVars>>

NextGen == StrategiesPush

SpecGen == InitGen /\ [][NextGen]_vars

\* ------------------------------------------------------------------------
\* SpecBatch: a complete run of the worker's nested loops, entry by entry
\* ------------------------------------------------------------------------
BatchDraws ==
    << [issue |-> <<"2", "0", "2", "4", "0", "0", "1">>, numbers |-> <<1, 2, 3, 4, 5>>],
       [issue |-> <<"2", "0", "2", "4", "0", "0", "2">>, numbers |-> <<6, 2, 3, 4, 5>>],
       [issue |-> <<"2", "0", "2", "5", "0", "0", "1">>, numbers |-> <<0, 7, 2, 9, 6>>],
       [issue |-> <<"2", "0", "2", "5", "0", "0", "2">>, numbers |-> <<3, 3, 8, 1, 5>>] >>

BatchDrawSeqs == {SubSeq(BatchDraws, 1, n) : n \in 0..MaxBatchDraws}

\* a variant of LoopNext: the lookback loop stops one short
LoopNext_ShortLookbacks(s) ==
    IF s.t + 1 < Len(targetGroups) THEN [s EXCEPT !.t = @ + 1]
    ELSE IF s.o + 1 < Len(OFFSETS) THEN [s EXCEPT !.t = 0, !.o = @ + 1]
    ELSE IF s.l + 1 < Len(LOOKBACKS) - 1 THEN [s EXCEPT !.t = 0, !.o = 0, !.l = @ + 1]
    ELSE [f |-> s.f + 1, l |-> 0, o |-> 0, t |-> 0]

\* a variant of LoopNext: the loops nested as in generateStrategies
\* (formula, target group, offset, lookback)
LoopNext_TargetsOuter(s) ==
    IF s.l + 1 < Len(LOOKBACKS) THEN [s EXCEPT !.l = @ + 1]
    ELSE IF s.o + 1 < Len(OFFSETS) THEN [s EXCEPT !.l = 0, !.o = @ + 1]
    ELSE IF s.t + 1 < Len(targetGroups) THEN [s EXCEPT !.l = 0, !.o = 0, !.t = @ + 1]
    ELSE [f |-> s.f + 1, l |-> 0, o |-> 0, t |-> 0]

\* the loop indices after one more pass of the innermost loop:
\* for f { for l { for o { for t { ... } } } }
LoopNext(s) ==
    IF s.t + 1 < Len(targetGroups) THEN [s EXCEPT !.t = @ + 1]
    ELSE IF s.o + 1 < Len(OFFSETS) THEN [s EXCEPT !.t = 0, !.o = @ + 1]
    ELSE IF s.l + 1 < Len(LOOKBACKS) THEN [s EXCEPT !.t = 0, !.o = 0, !.l = @ + 1]
    ELSE [f |-> s.f + 1, l |-> 0, o |-> 0, t |-> 0]

\* the state after runAnalysisWorker(draws) has run: a promise that is pending,
\* a new worker, and worker.postMessage(draws) about to start its onmessage
InitBatch ==
    /\ pc = "loop"
    /\ AppConstructed
    /\ draws \in BatchDrawSeqs
    /\ sel = [f |-> 0, l |-> 0, o |-> 0, t |-> 0]
    /\ resultsLength = 0
    /\ summary = None
    /\ workerWinHistory = <<>>
    /\ detailedStrategy = None
    /\ winHistory = <<>>
    /\ history = <<>>
    /\ call = [promise |-> "pending", posted |-> 0, delivered |-> None, terminated |-> FALSE]

\* one pass of the innermost loop: the analysis at sel and results.push(...)
WorkerPush ==
    /\ pc = "loop"
    /\ sel.f < Len(formulas)
    /\ LET form == formulas[sel.f + 1]
           lookback == LOOKBACKS[sel.l + 1]
           offset == OFFSETS[sel.o + 1]
           targets == targetGroups[sel.t + 1]
           acc == W_Analysis(form, lookback, offset, targets, draws)
       IN  /\ summary' = W_Result(form, lookback, offset, targets, draws, acc)
           /\ workerWinHistory' = acc.winHistory
    /\ resultsLength' = resultsLength + 1
    /\ sel' = LoopNext(sel)
    /\ UNCHANGED <<pc, draws, detailedStrategy, winHistory, history>>
    /\ UNCHANGED <<appVars, call>>

\* a variant of WorkerPostMessage: the list is posted at the end of the first
\* pass of the outermost loop
WorkerPostMessage_InsideLoop ==
    /\ pc = "loop"
    /\ sel.f >= 1
    /\ pc' = "posted"
    /\ call' = [call EXCEPT !.posted = @ + 1]
    /\ UNCHANGED <<draws, sel, resultsLength, summary, workerWinHistory,
                   detailedStrategy, winHistory, history>>
    /\ UNCHANGED appVars

\* self.postMessage(results), once the outermost loop has ended: the last
\* statement of the worker's onmessage
WorkerPostMessage ==
    /\ pc = "loop"
    /\ sel.f >= Len(formulas)
    /\ pc' = "posted"
    /\ call' = [call EXCEPT !.posted = @ + 1]
    /\ UNCHANGED <<draws, sel, resultsLength, summary, workerWinHistory,
                   detailedStrategy, winHistory, history>>
    /\ UNCHANGED appVars

\* worker.terminate(): the worker and its locals are gone
WorkerTerminated ==
    /\ sel' = [f |-> 0, l |-> 0, o |-> 0, t |-> 0]
    /\ resultsLength' = 0
    /\ summary' = None
    /\ workerWinHistory' = <<>>

\* worker.onmessage of runAnalysisWorker: resolve(e.data); worker.terminate().
\* resolve on a promise that is already settled does nothing.
WorkerOnMessage ==
    /\ pc = "posted"
    /\ call' = [call EXCEPT !.promise = IF @ = "pending" THEN "resolved" ELSE @,
                            !.delivered = IF call.promise = "pending" THEN resultsLength ELSE @,
                            !.terminated = TRUE]
    /\ WorkerTerminated
    /\ pc' = "settled"
    /\ UNCHANGED <<draws, detailedStrategy, winHistory, history>>
    /\ UNCHANGED appVars

\* worker.onerror of runAnalysisWorker, for an exception thrown while the
\* worker's onmessage runs: reject(e); worker.terminate()
WorkerOnError ==
    /\ pc = "loop"
    /\ call' = [call EXCEPT !.promise = IF @ = "pending" THEN "rejected" ELSE @,
                            !.terminated = TRUE]
    /\ WorkerTerminated
    /\ pc' = "settled"
    /\ UNCHANGED <<draws, detailedStrategy, winHistory, history>>
    /\ UNCHANGED appVars

NextBatch == WorkerPush \/ WorkerPostMessage \/ WorkerOnMessage \/ WorkerOnError

SpecBatch == InitBatch /\ [][NextBatch]_vars

\* ------------------------------------------------------------------------
\* SpecApp: the App component, its analysis runs and their workers
\* ------------------------------------------------------------------------
\* a.issue.localeCompare(b.issue) as the comparison of a stable sort of draws
RECURSIVE InsertByIssue(_, _)
InsertByIssue(x, sorted) ==
    IF sorted = <<>> THEN <<x>>
    ELSE IF localeCompare(x.issue, Head(sorted).issue) < 0 THEN <<x>> \o sorted
    ELSE <<Head(sorted)>> \o InsertByIssue(x, Tail(sorted))

RECURSIVE SortByIssue(_)
SortByIssue(ds) ==
    IF ds = <<>> THEN <<>>
    ELSE InsertByIssue(ds[Len(ds)], SortByIssue(SubSeq(ds, 1, Len(ds) - 1)))

\* issue.endsWith('.0') ? issue.slice(0, -2) : issue
StripDotZero(issue) ==
    IF Len(issue) >= 2 /\ SubSeq(issue, Len(issue) - 1, Len(issue)) = <<".", "0">>
    THEN SubSeq(issue, 1, Len(issue) - 2)
    ELSE issue

\* the first of parts[1..] that is five digits, or '' when there is none
RECURSIVE NumberPart(_, _)
NumberPart(parts, j) ==
    IF j > Len(parts) THEN <<>>
    ELSE IF Len(parts[j]) = 5 /\ AllDigits(parts[j]) THEN parts[j]
    ELSE NumberPart(parts, j + 1)

\* the loop of parseCSV over the lines from line i on. A text is the sequence
\* of its lines and a line is the sequence of the parts that
\* line.trim().split(/[,;\t]+/) gives; the parts of the texts modelled here
\* hold no blank and no quote. The date field of a draw is not read by any
\* evaluator and is left out of the draws.
RECURSIVE ParseLines(_, _, _)
ParseLines(lines, i, data) ==
    IF i > Len(lines) THEN data
    ELSE LET parts == lines[i]
             numberPart == NumberPart(parts, 2)
         IN  IF parts = <<>> \/ Len(parts) < 2 \/ numberPart = <<>>
             THEN ParseLines(lines, i + 1, data)
             ELSE ParseLines(lines, i + 1,
                     Append(data, [issue |-> StripDotZero(parts[1]),
                                   numbers |-> [k \in 1..5 |-> DigitValue(numberPart[k])]]))

parseCSV(text) == SortByIssue(ParseLines(text, 1, <<>>))

\* the entries at the head of the list a worker posts for e.data = ds: the
\* first passes of the innermost loop (formula 0, lookback 1, offset 0 and the
\* first target groups), with the length of the whole list
\* a variant of W_Results: the list is appended to the one of the run before
W_Results_AppendedToPrevious(ds) ==
    [length |-> results.length
                + Len(formulas) * Len(LOOKBACKS) * Len(OFFSETS) * Len(targetGroups),
     head |-> IF results.length # 0 THEN results.head
              ELSE [k \in 1..MaxResultsHead |->
                       W_Entry(formulas[1], LOOKBACKS[1], OFFSETS[1], targetGroups[k], ds)]]

W_Results(ds) ==
    [length |-> Len(formulas) * Len(LOOKBACKS) * Len(OFFSETS) * Len(targetGroups),
     head |-> [k \in 1..MaxResultsHead |->
                  W_Entry(formulas[1], LOOKBACKS[1], OFFSETS[1], targetGroups[k], ds)]]

\* the draws a user enters in ManualInput (an issue that is not blank and
\* five digits: what handleSubmit lets through to onAdd)
ManualDraws ==
    { [issue |-> <<"2", "0", "2", "4", "0", "0", "3">>, numbers |-> <<6, 1, 3, 4, 5>>] }

\* the files a user uploads: an empty one, one whose lines are out of order
\* and whose issues begin with a digit, a small and a capital letter,
\* and one with a date column, a line without a number and a malformed number
CsvTexts ==
    { <<>>,
      << << <<"B", "2", "5", "0", "0", "1">>, <<"6", "1", "3", "4", "5">> >>,
         << <<"2", "0", "2", "4", "0", "0", "1">>, <<"1", "2", "3", "4", "5">> >>,
         << <<"a", "2", "5", "0", "0", "2">>, <<"1", "6", "1", "0", "5">> >> >>,
      << << <<"2", "0", "2", "4", "0", "0", "4", ".", "0">>,
            <<"2", "0", "2", "4", "-", "0", "1">>, <<"0", "7", "2", "9", "6">> >>,
         << <<"B", "a", "a">> >>,
         <<>>,
         << <<"2", "0", "2", "4", "0", "0", "6">>, <<"1", "2", "a", "4", "5">> >> >> }

\* whether the page under the two overlays (ManualInput, StrategyDetail; both
\* fixed inset-0) can be clicked
PageReachable == ~showManualInput /\ detailedStrategy = None

InitApp ==
    /\ pc = "app"
    /\ draws = <<>>
    /\ sel = [f |-> 0, l |-> 0, o |-> 0, t |-> 0]
    /\ resultsLength = 0
    /\ summary = None
    /\ workerWinHistory = <<>>
    /\ detailedStrategy = None
    /\ winHistory = <<>>
    /\ history = <<>>
    /\ call = NoCall
    /\ AppConstructed

\* runAnalysis(currentDraws): setLoading(true) and a timer of 100 ms
runAnalysis(currentDraws) ==
    /\ loading' = TRUE
    /\ runs' = Append(runs, [draws |-> currentDraws, phase |-> "timer", stats |-> None])

\* onClick of either manual-input button: setShowManualInput(true). The first
\* screen shows its button only when not loading, the control bar always.
OpenManualInput ==
    /\ pc = "app"
    /\ alertShown = "none"
    /\ PageReachable
    /\ results.length # 0 \/ ~loading
    /\ showManualInput' = TRUE
    /\ UNCHANGED <<pc, draws, detailedStrategy, results, loading, selectedStrategy, runs>>
    /\ UNCHANGED <<workerVars, strategies, analyses, alertShown>>

\* onCancel of ManualInput: setShowManualInput(false)
CancelManualInput ==
    /\ pc = "app"
    /\ alertShown = "none"
    /\ showManualInput
    /\ showManualInput' = FALSE
    /\ UNCHANGED <<pc, draws, detailedStrategy, results, loading, selectedStrategy, runs>>
    /\ UNCHANGED <<workerVars, strategies, analyses, alertShown>>

\* handleAddDraw(issue, numbers), called by ManualInput's submit
handleAddDraw ==
    /\ pc = "app"
    /\ alertShown = "none"
    /\ showManualInput
    /\ Len(runs) < MaxRuns
    /\ \E newDraw \in ManualDraws :
          LET updatedDraws == SortByIssue(Append(draws, newDraw))
          IN  /\ draws' = updatedDraws
              /\ runAnalysis(updatedDraws)
    /\ showManualInput' = FALSE
    /\ IF selectedStrategy # None
       THEN selectedStrategy' = None /\ detailedStrategy' = None
       ELSE UNCHANGED <<selectedStrategy, detailedStrategy>>
    /\ UNCHANGED <<pc, results>>
    /\ UNCHANGED <<workerVars, strategies, analyses, alertShown>>

\* a variant of handleDataLoaded: without the test of parsedDraws.length
handleDataLoaded_NoLengthTest ==
    /\ pc = "app"
    /\ alertShown = "none"
    /\ PageReachable
    /\ ~loading
    /\ \E csvContent \in CsvTexts :
          LET parsedDraws == parseCSV(csvContent)
          IN  /\ Len(runs) < MaxRuns
              /\ draws' = parsedDraws
              /\ runAnalysis(parsedDraws)
              /\ UNCHANGED alertShown
    /\ UNCHANGED <<pc, detailedStrategy, results, showManualInput, selectedStrategy>>
    /\ UNCHANGED <<workerVars, strategies, analyses>>

\* handleDataLoaded(csvContent), called by FileUpload, whose input is disabled
\* while loading and is not rendered on the first screen while loading. A
\* text without a valid line ends in the alert and the return.
handleDataLoaded ==
    /\ pc = "app"
    /\ alertShown = "none"
    /\ PageReachable
    /\ ~loading
    /\ \E csvContent \in CsvTexts :
          LET parsedDraws == parseCSV(csvContent)
          IN  IF Len(parsedDraws) = 0
              THEN /\ alertShown' = "noData"
                   /\ UNCHANGED <<draws, loading, runs>>
              ELSE /\ Len(runs) < MaxRuns
                   /\ draws' = parsedDraws
                   /\ runAnalysis(parsedDraws)
                   /\ UNCHANGED alertShown
    /\ UNCHANGED <<pc, detailedStrategy, results, showManualInput, selectedStrategy>>
    /\ UNCHANGED <<workerVars, strategies, analyses>>

\* onClick of the reset button of the control bar: setResults([]); setDraws([])
ResetClick ==
    /\ pc = "app"
    /\ alertShown = "none"
    /\ PageReachable
    /\ results.length # 0
    /\ results' = NoResults
    /\ draws' = <<>>
    /\ UNCHANGED <<pc, detailedStrategy, loading, showManualInput, selectedStrategy, runs>>
    /\ UNCHANGED <<workerVars, strategies, analyses, alertShown>>

\* the timer of a run fires: runAnalysisWorker(currentDraws) creates a worker
\* and posts the draws to it. Timers of equal delay fire in the order set.
TimerFires ==
    /\ pc = "app"
    /\ alertShown = "none"
    /\ \E r \in 1..Len(runs) :
          /\ runs[r].phase = "timer"
          /\ \A q \in 1..(r - 1) : runs[q].phase # "timer"
          /\ runs' = [runs EXCEPT ![r].phase = "worker"]
    /\ UNCHANGED <<pc, draws, detailedStrategy, results, loading, showManualInput,
                   selectedStrategy>>
    /\ UNCHANGED <<workerVars, strategies, analyses, alertShown>>

\* worker.onmessage of a run: the promise resolves, setResults(stats), and
\* finally setLoading(false). The workers of different runs answer in any order.
WorkerAnswers ==
    /\ pc = "app"
    /\ alertShown = "none"
    /\ \E r \in 1..Len(runs) :
          /\ runs[r].phase = "worker"
          /\ LET stats == W_Results(runs[r].draws)
             IN  /\ runs' = [runs EXCEPT ![r].phase = "resolved", ![r].stats = stats]
                 /\ results' = stats
    /\ loading' = FALSE
    /\ UNCHANGED <<pc, draws, detailedStrategy, showManualInput, selectedStrategy>>
    /\ UNCHANGED <<workerVars, strategies, analyses, alertShown>>

\* a variant of WorkerFails: the failure empties the list on display
WorkerFails_EmptiesResults ==
    /\ pc = "app"
    /\ alertShown = "none"
    /\ \E r \in 1..Len(runs) :
          /\ runs[r].phase = "worker"
          /\ runs' = [runs EXCEPT ![r].phase = "rejected"]
    /\ alertShown' = "failed"
    /\ results' = NoResults
    /\ UNCHANGED <<pc, draws, detailedStrategy, loading, showManualInput,
                   selectedStrategy>>
    /\ UNCHANGED <<workerVars, strategies, analyses>>

\* worker.onerror of a run: the promise rejects and the catch logs and alerts
WorkerFails ==
    /\ pc = "app"
    /\ alertShown = "none"
    /\ \E r \in 1..Len(runs) :
          /\ runs[r].phase = "worker"
          /\ runs' = [runs EXCEPT ![r].phase = "rejected"]
    /\ alertShown' = "failed"
    /\ UNCHANGED <<pc, draws, detailedStrategy, results, loading, showManualInput,
                   selectedStrategy>>
    /\ UNCHANGED <<workerVars, strategies, analyses>>

\* the user closes the alert: alert() returns. In handleDataLoaded the return
\* follows; in runAnalysis the finally block, setLoading(false). While the
\* dialog is open no handler, timer or message event runs.
DismissAlert ==
    /\ pc = "app"
    /\ alertShown # "none"
    /\ alertShown' = "none"
    /\ loading' = (IF alertShown = "failed" THEN FALSE ELSE loading)
    /\ UNCHANGED <<pc, draws, detailedStrategy, results, showManualInput,
                   selectedStrategy, runs>>
    /\ UNCHANGED <<workerVars, strategies, analyses>>

\* handleSelectStrategy(summary) for a row of the dashboard, which is rendered
\* when results is not empty and loading is false
SelectStrategy ==
    /\ pc = "app"
    /\ alertShown = "none"
    /\ PageReachable
    /\ results.length # 0
    /\ ~loading
    /\ \E k \in 1..Len(results.head) :
          LET fullDetails == analyzeStrategy(results.head[k].config, draws)
          IN  /\ detailedStrategy' = fullDetails
              /\ selectedStrategy' = results.head[k]
              /\ analyses' = <<[config |-> results.head[k].config,
                                 draws |-> draws, stats |-> fullDetails]>>
    /\ UNCHANGED <<pc, draws, results, loading, showManualInput, runs>>
    /\ UNCHANGED <<workerVars, strategies, alertShown>>

\* onClose of StrategyDetail: setSelectedStrategy(null); setDetailedStrategy(null)
CloseDetail ==
    /\ pc = "app"
    /\ alertShown = "none"
    /\ detailedStrategy # None
    /\ selectedStrategy' = None
    /\ detailedStrategy' = None
    /\ UNCHANGED <<pc, draws, results, loading, showManualInput, runs>>
    /\ UNCHANGED <<workerVars, strategies, analyses, alertShown>>

NextApp ==
    \/ OpenManualInput
    \/ CancelManualInput
    \/ handleAddDraw
    \/ handleDataLoaded
    \/ ResetClick
    \/ TimerFires
    \/ WorkerAnswers
    \/ WorkerFails
    \/ DismissAlert
    \/ SelectStrategy
    \/ CloseDetail

SpecApp == InitApp /\ [][NextApp]_vars

\* ------------------------------------------------------------------------
\* Properties of one call of runAnalysisWorker
\* ------------------------------------------------------------------------
\* the worker posts at most one message, and it holds the complete list; an
\* outcome is the complete list or an error, and the worker is terminated
\* with the outcome, not before
OneOutcome ==
    /\ call.posted <= 1
    /\ pc = "posted" => (call.posted = 1 /\ resultsLength = 204600)
    /\ call.promise = "pending" => ~call.terminated
    /\ call.promise = "resolved" =>
          (call.posted = 1 /\ call.delivered = 204600 /\ call.terminated)
    /\ call.promise = "rejected" =>
          (call.posted = 0 /\ call.delivered = None /\ call.terminated)

\* a promise that has settled keeps its outcome
SettlesOnce ==
    call.promise \in {"resolved", "rejected"} => call' = call

Settled == call.promise \in {"resolved", "rejected"}

\* how far the call has come: the entries pushed, then the message, then the
\* outcome
Rank == IF pc = "loop" THEN resultsLength ELSE IF pc = "posted" THEN 204601 ELSE 204602

\* every step of the call brings it further, and it stops only when settled:
\* the call cannot run forever and cannot stop without an outcome
EndsSettled == ~(ENABLED (WorkerPostMessage \/ WorkerOnMessage \/ WorkerOnError)) => Settled

Advances == Rank' > Rank /\ Rank' <= 204602

\* C14: every call of runAnalysisWorker ends with exactly one outcome: the
\* single message of the worker with the complete list, or an error; the
\* promise settles once and the worker is terminated after that outcome.
C14_ExactlyOneOutcome ==
    [](OneOutcome /\ EndsSettled) /\ [][SettlesOnce /\ Advances]_vars

C14_Witness ==
    /\ call.promise = "resolved"
    /\ call.delivered = 204600
    /\ call.terminated
    /\ Len(draws) = MaxBatchDraws

\* ------------------------------------------------------------------------
\* Properties of the analysis runs of the App component
\* ------------------------------------------------------------------------
\* every started run has settled
AllRunsSettled == \A r \in 1..Len(runs) : runs[r].phase \in {"resolved", "rejected"}

\* C13: evaluation is deterministic. Two batch runs on the same draws deliver
\* identical result lists (hence identical StrategyStats for each
\* configuration), and two calls of analyzeStrategy with the same
\* configuration and draws return identical StrategyStats.
SameRunsSameLists ==
    \A r, q \in 1..Len(runs) :
        (/\ runs[r].phase = "resolved" /\ runs[q].phase = "resolved"
         /\ runs[r].draws = runs[q].draws)
        => runs[r].stats = runs[q].stats

\* a step that calls analyzeStrategy with the arguments of the call before
\* returns the value of the call before
SameCallSameStats ==
    (/\ analyses # <<>> /\ analyses' # <<>>
     /\ analyses'[1].config = analyses[1].config
     /\ analyses'[1].draws = analyses[1].draws)
    => analyses'[1].stats = analyses[1].stats

C4_LatestRunWins ==
    (/\ pc = "app"
     /\ runs # <<>>
     /\ AllRunsSettled
     /\ runs[Len(runs)].phase = "resolved"
     /\ results.length # 0)
    => results = W_Results(runs[Len(runs)].draws)

\* ------------------------------------------------------------------------
\* Properties of the evaluation of one configuration
\* ------------------------------------------------------------------------
\* the fields of a StrategyStats that C1 compares
StatsFields(s) ==
    [totalDraws |-> s.totalDraws, winDraws |-> s.winDraws, totalProfit |-> s.totalProfit,
     maxWinStreak |-> s.maxWinStreak, maxLoseStreak |-> s.maxLoseStreak,
     maxDrawdown |-> s.maxDrawdown, currentStreak |-> s.currentStreak,
     isOverheated |-> s.isOverheated, streakCounts |-> s.streakCounts,
     annualStats |-> s.annualStats, periods |-> s.survivalStats.periods]

\* C1: the StrategyStats the worker's batch loop produces for a configuration
\* equals, field by field, the one analyzeStrategy returns for the same
\* configuration and draws.
C1_BatchEqualsAnalyze ==
    pc \in {"detail", "history"} => StatsFields(summary) = StatsFields(detailedStrategy)

\* What does hold between the two: every compared field but annualStats is
\* equal, and annualStats holds the same entries, possibly in another order.
BatchEqualsAnalyzeUpToYearOrder ==
    pc \in {"detail", "history"} =>
        /\ [StatsFields(summary) EXCEPT !.annualStats = Range(@)]
           = [StatsFields(detailedStrategy) EXCEPT !.annualStats = Range(@)]
        /\ Len(summary.annualStats) = Len(detailedStrategy.annualStats)
        /\ summary.winRate = detailedStrategy.winRate
        /\ summary.profitRatio = detailedStrategy.profitRatio
        /\ summary.config = detailedStrategy.config


\* the periods of the evaluation, as 0-based draw indices
Periods(lookback) == {i \in 0..(Len(draws) - 1) : i >= lookback}

\* C2: totalProfit = winDraws*606 + (totalDraws - winDraws)*(-384), with
\* totalDraws = max(0, N - lookback), in the worker's entry and in the value
\* of analyzeStrategy.
ProfitIdentity(s) ==
    /\ s.totalProfit = s.winDraws * 606 + (s.totalDraws - s.winDraws) * (-384)
    /\ s.totalDraws = (IF Len(draws) - s.config.lookback > 0
                       THEN Len(draws) - s.config.lookback ELSE 0)

C2_ProfitIdentity ==
    /\ pc \in {"batch", "detail", "history"} => ProfitIdentity(summary)
    /\ pc \in {"detail", "history"} => ProfitIdentity(detailedStrategy)

C2_Witness ==
    /\ pc = "detail"
    /\ summary.winDraws >= 1
    /\ summary.totalDraws - summary.winDraws >= 2
    /\ detailedStrategy.winDraws >= 1

\* C3: a period is a win iff exactly one of the three target positions of its
\* draw holds refA[i] or refB[i], in the worker, in analyzeStrategy and in
\* generateHistory.
MatchesAt(i) ==
    LET c == summary.config
        refBase == refBaseArray(formulas[sel.f + 1], c.lookback, draws)
        ra == refA_Array(refBase, c.offset, c.lookback)[i + 1]
        rb == refB_Array(refBase, c.offset, c.lookback)[i + 1]
    IN  Cardinality({k \in 1..3 : draws[i + 1].numbers[c.targetIndices[k] + 1] \in {ra, rb}})

C3_WinIffExactlyOneMatch ==
    pc = "history" =>
        \A i \in Periods(summary.config.lookback) :
            /\ (workerWinHistory[i + 1] = 1) <=> (MatchesAt(i) = 1)
            /\ winHistory[i + 1] <=> (MatchesAt(i) = 1)
            /\ history[i - summary.config.lookback + 1].isWin <=> (MatchesAt(i) = 1)

C3_Witness ==
    /\ pc = "history"
    /\ \E i, j, k \in Periods(summary.config.lookback) :
          /\ MatchesAt(i) = 2 /\ workerWinHistory[i + 1] = 0 /\ ~winHistory[i + 1]
          /\ MatchesAt(j) = 1 /\ workerWinHistory[j + 1] = 1 /\ winHistory[j + 1]
          /\ MatchesAt(k) = 3 /\ workerWinHistory[k + 1] = 0

\* C9: the occurrence counts of streakCounts.win and streakCounts.loss sum to
\* the number of maximal runs of equal outcomes among the periods (0 without
\* periods).
RECURSIVE SumCounts(_, _)
SumCounts(m, keys) ==
    IF keys = {} THEN 0
    ELSE LET k == CHOOSE k \in keys : TRUE
         IN  m[k] + SumCounts(m, keys \ {k})

Occurrences(streakCounts) ==
    SumCounts(streakCounts.win, DOMAIN streakCounts.win)
    + SumCounts(streakCounts.loss, DOMAIN streakCounts.loss)

\* the number of maximal runs among the outcomes of the periods
MaximalRuns(outcomes, lookback) ==
    IF Periods(lookback) = {} THEN 0
    ELSE 1 + Cardinality({i \in Periods(lookback) :
                             i > lookback /\ outcomes[i + 1] # outcomes[i]})

C9_HistogramCountsRuns ==
    /\ pc \in {"batch", "detail", "history"} =>
          Occurrences(summary.streakCounts)
          = MaximalRuns(workerWinHistory, summary.config.lookback)
    /\ pc \in {"detail", "history"} =>
          Occurrences(detailedStrategy.streakCounts)
          = MaximalRuns(winHistory, detailedStrategy.config.lookback)

C9_Witness ==
    /\ pc = "detail"
    /\ MaximalRuns(workerWinHistory, summary.config.lookback) = 3
    /\ Occurrences(detailedStrategy.streakCounts) = 3

\* C10: with no more draws than the lookback the evaluators return the
\* zero-period result.
ZeroPeriod(s) ==
    /\ s.totalDraws = 0
    /\ s.winDraws = 0
    /\ s.winRate.num = 0
    /\ s.totalProfit = 0
    /\ s.profitRatio = 0
    /\ s.maxDrawdown = 0
    /\ s.currentStreak = 0
    /\ s.isOverheated = FALSE
    /\ DOMAIN s.streakCounts.win = {}
    /\ DOMAIN s.streakCounts.loss = {}
    /\ s.annualStats = <<>>
    /\ s.survivalStats.periods = <<>>

C10_ZeroPeriodResult ==
    /\ (pc \in {"batch", "detail", "history"} /\ Len(draws) <= summary.config.lookback)
          => ZeroPeriod(summary)
    /\ (pc \in {"detail", "history"} /\ Len(draws) <= detailedStrategy.config.lookback)
          => ZeroPeriod(detailedStrategy)

C10_Witness ==
    /\ pc = "detail"
    /\ Len(draws) = 1
    /\ summary.config.lookback = 2
    /\ ZeroPeriod(detailedStrategy)

\* C11: the list of generateHistory folds to the aggregates of the same
\* configuration: as many entries as totalDraws, as many wins as winDraws,
\* cumulativeProfit running by each entry's own profit (606 or -384) up to
\* totalProfit, and a trailing run whose signed length is currentStreak.
TrailingRun(h) ==
    IF h = <<>> THEN 0
    ELSE LET n == Len(h)
             from == CHOOSE j \in 1..n :
                        /\ \A k \in j..n : h[k].isWin = h[n].isWin
                        /\ j > 1 => h[j - 1].isWin # h[n].isWin
         IN  IF h[n].isWin THEN n - from + 1 ELSE -(n - from + 1)

HistoryFoldsTo(h, s) ==
    /\ Len(h) = s.totalDraws
    /\ Cardinality({k \in 1..Len(h) : h[k].isWin}) = s.winDraws
    /\ \A k \in 1..Len(h) :
          /\ h[k].profit = (IF h[k].isWin THEN 606 ELSE -384)
          /\ h[k].cumulativeProfit
             = (IF k = 1 THEN 0 ELSE h[k - 1].cumulativeProfit) + h[k].profit
    /\ (IF h = <<>> THEN 0 ELSE h[Len(h)].cumulativeProfit) = s.totalProfit
    /\ TrailingRun(h) = s.currentStreak

C11_HistoryFoldsToAggregates ==
    pc = "history" =>
        /\ HistoryFoldsTo(history, detailedStrategy)
        /\ HistoryFoldsTo(history, summary)

C11_Witness ==
    /\ pc = "history"
    /\ Len(history) = 3
    /\ history[1].isWin /\ ~history[2].isWin /\ ~history[3].isWin
    /\ detailedStrategy.currentStreak = -2
    /\ detailedStrategy.totalProfit = 606 - 384 - 384

\* C15: for the draws [1,2,3,4,5] (2024001) and [6,2,3,4,5] (2024002), the
\* one-position formula on position 0, lookback 1, offset 0 and targets
\* {0,1,2}: refA = 1 and refB = 6 for the second draw, one match, and
\* winDraws = 1, totalDraws = 1, totalProfit = 606, currentStreak = 1.
ScenarioStats(s) ==
    s.winDraws = 1 /\ s.totalDraws = 1 /\ s.totalProfit = 606 /\ s.currentStreak = 1

ScenarioSelected ==
    /\ draws = ScenarioDraws
    /\ sel = [f |-> 0, l |-> 0, o |-> 0, t |-> 0]

C15_Scenario ==
    (ScenarioSelected /\ pc \in {"detail", "history"}) =>
        LET config == detailedStrategy.config
            refA == getReferenceBase(draws[1].numbers, config)
            refB == (refA + 5) % 10
        IN  /\ config.type = 1 /\ config.inputIndices = <<0>>
            /\ config.lookback = 1 /\ config.offset = 0
            /\ config.targetIndices = <<0, 1, 2>>
            /\ refA = 1 /\ refB = 6
            /\ matchCount(draws[2].numbers, config.targetIndices, refA, refB) = 1
            /\ MatchesAt(1) = 1
            /\ ScenarioStats(detailedStrategy)
            /\ ScenarioStats(summary)

C15_Witness ==
    /\ ScenarioSelected
    /\ pc = "detail"
    /\ detailedStrategy.totalProfit = 606
    /\ winHistory = <<FALSE, TRUE>>

\* C12: maxDrawdown >= 0 and 0 <= winDraws <= totalDraws, so that
\* winRate = 100*winDraws/totalDraws lies in [0,100] and is 0 without periods.
RatesInRange(s) ==
    /\ s.maxDrawdown >= 0
    /\ 0 <= s.winDraws /\ s.winDraws <= s.totalDraws
    /\ s.winRate.den > 0
    /\ s.winRate.num * s.totalDraws = 100 * s.winDraws * s.winRate.den
    /\ 0 <= s.winRate.num /\ s.winRate.num <= 100 * s.winRate.den
    /\ s.totalDraws = 0 => s.winRate.num = 0

C12_RatesInRange ==
    /\ pc \in {"batch", "detail", "history"} => RatesInRange(summary)
    /\ pc \in {"detail", "history"} => RatesInRange(detailedStrategy)

C12_Witness ==
    /\ pc = "detail"
    /\ summary.winDraws = 1 /\ summary.totalDraws = 3
    /\ summary.maxDrawdown > 0
    /\ detailedStrategy.winRate = Quotient(100, 3)


\* ------------------------------------------------------------------------
\* Properties of a complete batch run
\* ------------------------------------------------------------------------
Pushed == pc \in {"loop", "posted"} /\ resultsLength > 0

\* C5: whatever the draws (none, or fewer than a lookback), the run ends with
\* one entry per configuration, 341 x 12 x 5 x 10 = 204600 of them, and an
\* entry whose lookback is >= the number of draws is a zero-period result.
C5_OneEntryPerConfiguration ==
    /\ pc = "posted" => resultsLength = 204600 /\ resultsLength = 341 * 12 * 5 * 10
    /\ pc = "loop" => resultsLength <= 204600
    /\ (Pushed /\ summary.config.lookback >= Len(draws)) => ZeroPeriod(summary)
    /\ (Pushed /\ summary.config.lookback < Len(draws)) =>
          summary.totalDraws = Len(draws) - summary.config.lookback

C5_Witness ==
    /\ pc = "posted"
    /\ draws = <<>>
    /\ resultsLength = 204600
    /\ ZeroPeriod(summary)

\* C6: the formulas are, for each degree d, every ascending d-subset of the
\* positions paired with every sequence of d-1 operators, without duplicates,
\* 5 + 30 + 90 + 135 + 81 = 341 in all; the target groups are the 10 distinct
\* 3-subsets of the positions.
IsAscending(seq) == \A k \in 1..(Len(seq) - 1) : seq[k] < seq[k + 1]

\* the ascending sequence of the elements of a set of numbers
RECURSIVE AscendingSeq(_)
AscendingSeq(set) ==
    IF set = {} THEN <<>>
    ELSE LET m == CHOOSE m \in set : \A x \in set : m <= x
         IN  <<m>> \o AscendingSeq(set \ {m})

ExpectedFormulas ==
    {[type |-> Cardinality(sub), inputs |-> AscendingSeq(sub), ops |-> ops] :
        <<sub, ops>> \in UNION {{sub} \X [1..(Cardinality(sub) - 1) -> {"+", "-", "*"}] :
                                   sub \in (SUBSET (0..4)) \ {{}}}}

ExpectedTargetGroups == {AscendingSeq(sub) : sub \in {x \in SUBSET (0..4) : Cardinality(x) = 3}}

FormulaKey(form) == [type |-> form.type, inputs |-> form.inputs, ops |-> form.ops]

FormulasOfDegree(d) == {k \in 1..Len(formulas) : formulas[k].type = d}

NoDuplicates(seq) == \A a, b \in 1..Len(seq) : a # b => seq[a] # seq[b]

EnumerationComplete ==
    /\ Len(formulas) = 341
    /\ Cardinality(FormulasOfDegree(1)) = 5
    /\ Cardinality(FormulasOfDegree(2)) = 30
    /\ Cardinality(FormulasOfDegree(3)) = 90
    /\ Cardinality(FormulasOfDegree(4)) = 135
    /\ Cardinality(FormulasOfDegree(5)) = 81
    /\ {FormulaKey(formulas[k]) : k \in 1..Len(formulas)} = ExpectedFormulas
    /\ NoDuplicates([k \in 1..Len(formulas) |-> FormulaKey(formulas[k])])
    /\ Len(targetGroups) = 10
    /\ Range(targetGroups) = ExpectedTargetGroups
    /\ NoDuplicates(targetGroups)

C6_EnumerationIsExhaustive ==
    /\ EnumerationComplete
    /\ Pushed =>
          /\ Len(summary.config.inputIndices) = summary.config.type
          /\ IsAscending(summary.config.inputIndices)
          /\ Range(summary.config.inputIndices) \subseteq 0..4
          /\ Len(summary.config.operators) = summary.config.type - 1
          /\ Range(summary.config.operators) \subseteq {"+", "-", "*"}
          /\ Len(summary.config.targetIndices) = 3
          /\ IsAscending(summary.config.targetIndices)
          /\ Range(summary.config.targetIndices) \subseteq 0..4

C6_Witness ==
    /\ pc = "posted"
    /\ summary.config.type = 5
    /\ summary.config.operators = <<"*", "*", "*", "*">>
    /\ summary.config.targetIndices = <<2, 3, 4>>

\* C7: the id is injective over (formula, target group, offset, lookback):
\* the six coordinates of a configuration are read back from its id alone,
\* also when an operator is '-' and when the lookback has two digits.
RECURSIVE StrToNum(_)
StrToNum(str) ==
    IF str = <<>> THEN 0
    ELSE 10 * StrToNum(SubSeq(str, 1, Len(str) - 1)) + DigitValue(str[Len(str)])


\* the coordinates an id spells out, or None when it is not of the form
\* d-Pos-<d digits>-<d-1 operators>-T<3 digits>-K<digit>-L<digits>
DecodeId(id) ==
    IF Len(id) < 1 \/ ~IsDigitChar(id[1]) THEN None
    ELSE LET d == DigitValue(id[1])
             at(k) == IF k <= Len(id) THEN id[k] ELSE "end"
         IN  IF /\ d >= 1
                /\ Len(id) >= 17 + 2 * d
                /\ SubSeq(id, 2, 6) = <<"-", "P", "o", "s", "-">>
                /\ AllDigits(SubSeq(id, 7, 6 + d))
                /\ at(7 + d) = "-"
                /\ at(7 + 2 * d) = "-"
                /\ at(8 + 2 * d) = "T"
                /\ AllDigits(SubSeq(id, 9 + 2 * d, 11 + 2 * d))
                /\ SubSeq(id, 12 + 2 * d, 13 + 2 * d) = <<"-", "K">>
                /\ IsDigitChar(at(14 + 2 * d))
                /\ SubSeq(id, 15 + 2 * d, 16 + 2 * d) = <<"-", "L">>
                /\ AllDigits(SubSeq(id, 17 + 2 * d, Len(id)))
             THEN [type |-> d,
                   inputIndices |-> [k \in 1..d |-> DigitValue(id[6 + k])],
                   operators |-> SubSeq(id, 8 + d, 6 + 2 * d),
                   targetIndices |-> [k \in 1..3 |-> DigitValue(id[8 + 2 * d + k])],
                   offset |-> DigitValue(id[14 + 2 * d]),
                   lookback |-> StrToNum(SubSeq(id, 17 + 2 * d, Len(id)))]
             ELSE None

Coordinates(config) ==
    [type |-> config.type, inputIndices |-> config.inputIndices,
     operators |-> config.operators, targetIndices |-> config.targetIndices,
     offset |-> config.offset, lookback |-> config.lookback]

DistinctCoordinates ==
    /\ NoDuplicates([k \in 1..Len(formulas) |-> FormulaKey(formulas[k])])
    /\ NoDuplicates(targetGroups)
    /\ NoDuplicates(OFFSETS)
    /\ NoDuplicates(LOOKBACKS)

C7_IdIsInjective ==
    /\ DistinctCoordinates
    /\ Pushed => DecodeId(summary.config.id) = Coordinates(summary.config)

C7_Witness ==
    /\ Pushed
    /\ summary.config.lookback = 12
    /\ summary.config.operators = <<"-", "-">>
    /\ DecodeId(summary.config.id) = Coordinates(summary.config)

\* C8: whatever the draws, the entry at index
\* ((f*12 + (lookback-1))*5 + offset)*10 + t is the one of the f-th formula,
\* that lookback, that offset and the t-th target group.
C8_OrderIsTheEnumerationOrder ==
    Pushed =>
        LET index == resultsLength - 1
            f == index \div 600
            lookback == ((index \div 50) % 12) + 1
            offset == (index \div 10) % 5
            t == index % 10
        IN  /\ index = ((f * 12 + (lookback - 1)) * 5 + offset) * 10 + t
            /\ f < 341
            /\ FormulaKey(formulas[f + 1])
               = [type |-> summary.config.type, inputs |-> summary.config.inputIndices,
                  ops |-> summary.config.operators]
            /\ summary.config.lookback = lookback
            /\ summary.config.offset = offset
            /\ summary.config.targetIndices = targetGroups[t + 1]

C8_Witness ==
    /\ Pushed
    /\ Len(draws) = 2
    /\ resultsLength - 1 = ((7 * 12 + (3 - 1)) * 5 + 4) * 10 + 9
    /\ summary.config.lookback = 3
    /\ summary.config.offset = 4
    /\ summary.config.targetIndices = <<2, 3, 4>>

\* ------------------------------------------------------------------------
\* Properties of the evaluation on long runs of wins and losses
\* ------------------------------------------------------------------------
\* the 0-based indices of the periods that are a loss right after at least
\* nine wins in a row; won[i + 1] tells whether period i is a win
BreakPoints(won, lookback) ==
    {i \in Periods(lookback) :
        /\ ~won[i + 1]
        /\ i - 9 >= lookback
        /\ \A k \in (i - 9)..(i - 1) : won[k + 1]}

\* the running total of the n periods after period i
RunningTotal(won, i, n) ==
    606 * Cardinality({j \in (i + 1)..(i + n) : won[j + 1]})
    - 384 * Cardinality({j \in (i + 1)..(i + n) : ~won[j + 1]})

\* the periods simulated from the break at i: up to the first one that brings
\* the running total to -1000 or below, or all that are left
Simulated(won, i) ==
    LET left == Len(won) - 1 - i
        stops == {n \in 1..left : RunningTotal(won, i, n) <= -1000}
    IN  IF stops = {} THEN left ELSE CHOOSE n \in stops : \A m \in stops : n <= m

SurvivalOf(won, lookback) ==
    LET breaks == AscendingSeq(BreakPoints(won, lookback))
    IN  [k \in 1..Len(breaks) |-> Simulated(won, breaks[k])]

\* C16: survivalStats.periods holds, in order, one entry for each loss that
\* follows a run of at least 9 wins and no other entry; the entry is the
\* number of periods simulated from the break, 606 per win and -384 per loss,
\* until the running total is <= -1000 or the draws are exhausted.
C16_SurvivalPeriods ==
    /\ pc \in {"batch", "detail", "history"} =>
          summary.survivalStats.periods
          = SurvivalOf([k \in 1..Len(draws) |-> workerWinHistory[k] = 1],
                       summary.config.lookback)
    /\ pc \in {"detail", "history"} =>
          detailedStrategy.survivalStats.periods
          = SurvivalOf(winHistory, detailedStrategy.config.lookback)

\* nine wins, a loss and three more losses, and later nine wins and a loss
\* again: the first simulation stops at -1152, the second has nothing left
C16_Witness ==
    /\ pc = "detail"
    /\ summary.survivalStats.periods = <<3, 0>>
    /\ detailedStrategy.survivalStats.periods = <<3, 0>>
    /\ summary.maxWinStreak = 9

\* the length of the win run still open at the last evaluated period: 0 when
\* there is no period or the last period is a loss
OpenWinRun(won, lookback) ==
    LET n == Len(won)
        open == {m \in 0..(n - lookback) : \A k \in (n - m + 1)..n : won[k]}
    IN  IF n <= lookback THEN 0 ELSE CHOOSE m \in open : \A q \in open : q <= m

OverheatedIffOpenWinRun(s, won) ==
    /\ s.isOverheated = (s.currentStreak >= 8)
    /\ s.isOverheated = (OpenWinRun(won, s.config.lookback) >= 8)
    /\ (s.totalDraws = 0 \/ ~won[Len(won)]) => ~s.isOverheated

\* C19: isOverheated is true exactly when currentStreak >= 8, that is when
\* the run open at the last evaluated period is a win run of at least 8; it is
\* false for an open loss run and for a zero-period result, in the worker's
\* entry and in the value of analyzeStrategy.
C19_OverheatedIffStreakAtLeast8 ==
    /\ pc \in {"batch", "detail", "history"} =>
          OverheatedIffOpenWinRun(summary,
                                  [k \in 1..Len(draws) |-> workerWinHistory[k] = 1])
    /\ pc \in {"detail", "history"} =>
          OverheatedIffOpenWinRun(detailedStrategy, winHistory)

\* an open win run of exactly 8
C19_Witness ==
    /\ pc = "detail"
    /\ summary.currentStreak = 8
    /\ summary.isOverheated
    /\ detailedStrategy.currentStreak = 8
    /\ detailedStrategy.isOverheated

\* ------------------------------------------------------------------------
\* Properties of the reference digits of every formula
\* ------------------------------------------------------------------------
\* the value of the formula on numbers after its first k operators, taken
\* strictly from left to right
RECURSIVE LeftToRight(_, _, _)
LeftToRight(form, numbers, k) ==
    IF k = 0 THEN numbers[form.inputs[1] + 1]
    ELSE LET left == LeftToRight(form, numbers, k - 1)
             right == numbers[form.inputs[k + 1] + 1]
         IN  CASE form.ops[k] = "+" -> left + right
               [] form.ops[k] = "-" -> left - right
               [] form.ops[k] = "*" -> left * right

\* the value of the selected formula on the source draw of period i
ValueAt(i) ==
    LET form == formulas[sel.f + 1]
    IN  LeftToRight(form, draws[i - summary.config.lookback + 1].numbers, Len(form.ops))

\* the worker's base digit and reference pair of period i
BaseAt(i) == refBaseArray(formulas[sel.f + 1], summary.config.lookback, draws)[i + 1]

RefA_At(i) ==
    refA_Array(refBaseArray(formulas[sel.f + 1], summary.config.lookback, draws),
               summary.config.offset, summary.config.lookback)[i + 1]

RefB_At(i) ==
    refB_Array(refBaseArray(formulas[sel.f + 1], summary.config.lookback, draws),
               summary.config.offset, summary.config.lookback)[i + 1]

\* refA of analyzeStrategy for period i
AnalyzeRefA_At(i) ==
    getReferenceBase(draws[i - summary.config.lookback + 1].numbers, summary.config)

\* C17: for every period i >= lookback and every offset 0..4,
\* refA = (base + offset) mod 10 and refB = (refA + 5) mod 10, in the worker
\* and in analyzeStrategy; both are in 0..9, different, and 5 apart modulo 10.
C17_ReferencePair ==
    pc \in {"batch", "detail", "history"} =>
        \A i \in Periods(summary.config.lookback) :
            /\ summary.config.offset \in 0..4
            /\ RefA_At(i) = (BaseAt(i) + summary.config.offset) % 10
            /\ RefB_At(i) = (RefA_At(i) + 5) % 10
            /\ AnalyzeRefA_At(i) = RefA_At(i)
            /\ RefA_At(i) \in 0..9
            /\ RefB_At(i) \in 0..9
            /\ RefA_At(i) # RefB_At(i)
            /\ (RefA_At(i) - RefB_At(i)) % 10 = 5
            /\ (RefB_At(i) - RefA_At(i)) % 10 = 5

\* refA + 5 wraps around: refA = 7 and refB = 2
C17_Witness ==
    /\ pc = "batch"
    /\ Len(draws) = 2
    /\ summary.config.offset = 4
    /\ RefA_At(1) = 7
    /\ RefB_At(1) = 2

\* C18: the base digit of period i is |v| mod 10 with v the formula evaluated
\* strictly left to right on the numbers of the draw at i - lookback, and
\* getReferenceBase's (|v| + offset) mod 10 equals the worker's
\* ((|v| mod 10) + offset) mod 10, for formulas of every degree.
C18_BaseIsLeftToRightValue ==
    pc \in {"batch", "detail", "history"} =>
        \A i \in Periods(summary.config.lookback) :
            /\ BaseAt(i) = Abs(ValueAt(i)) % 10
            /\ AnalyzeRefA_At(i) = (Abs(ValueAt(i)) + summary.config.offset) % 10
            /\ AnalyzeRefA_At(i)
               = ((Abs(ValueAt(i)) % 10) + summary.config.offset) % 10
            /\ AnalyzeRefA_At(i) = RefA_At(i)

\* 3 - 9 * 3: -18 from left to right, base digit 8, and 0 with offset 2
C18_Witness ==
    /\ pc = "batch"
    /\ Len(draws) = 2
    /\ formulas[sel.f + 1].type = 3
    /\ formulas[sel.f + 1].ops = <<"-", "*">>
    /\ ValueAt(1) = -18
    /\ BaseAt(1) = 8
    /\ summary.config.offset = 2
    /\ RefA_At(1) = 0

\* ------------------------------------------------------------------------
\* Properties of the annual breakdown
\* ------------------------------------------------------------------------
\* the year of period i: the first 4 characters of its issue
YearOf(i) == SubSeq(draws[i + 1].issue, 1, 4)

\* annualStats of s has one entry for each year among the periods, with the
\* counts and the profit of the periods of that year; won[i + 1] tells
\* whether period i is a win
AnnualEntries(s, won) ==
    LET evaluated == Periods(s.config.lookback)
        a == s.annualStats
        Of(y) == {i \in evaluated : YearOf(i) = y}
        WinsOf(y) == {i \in Of(y) : won[i + 1]}
    IN  /\ Len(a) = Cardinality({YearOf(i) : i \in evaluated})
        /\ {a[k].year : k \in 1..Len(a)} = {YearOf(i) : i \in evaluated}
        /\ \A k \in 1..Len(a) :
              /\ a[k].totalCount = Cardinality(Of(a[k].year))
              /\ a[k].winCount = Cardinality(WinsOf(a[k].year))
              /\ a[k].profit = 606 * Cardinality(WinsOf(a[k].year))
                               - 384 * Cardinality(Of(a[k].year) \ WinsOf(a[k].year))
        /\ SumSeq([k \in 1..Len(a) |-> a[k].totalCount]) = s.totalDraws
        /\ SumSeq([k \in 1..Len(a) |-> a[k].winCount]) = s.winDraws
        /\ SumSeq([k \in 1..Len(a) |-> a[k].profit]) = s.totalProfit

\* the years of annualStats ascend in the lexicographic order of strings
AscendingYears(s) ==
    \A j, k \in 1..Len(s.annualStats) :
        j < k => CodeUnitLess(s.annualStats[j].year, s.annualStats[k].year)

\* the years of annualStats ascend in the order of localeCompare
AscendingYearsByCollation(s) ==
    \A j, k \in 1..Len(s.annualStats) :
        j < k => localeCompare(s.annualStats[j].year, s.annualStats[k].year) < 0

\* C20: annualStats has exactly one entry per distinct 4-character issue
\* prefix among the evaluated periods, sorted ascending by year; the entry's
\* totalCount, winCount and profit are those of the periods with that prefix,
\* so the entries sum to totalDraws, winDraws and totalProfit; in the worker's
\* entry and in the value of analyzeStrategy.
C20_AnnualBreakdown ==
    /\ pc \in {"batch", "detail", "history"} =>
          /\ AnnualEntries(summary, [k \in 1..Len(draws) |-> workerWinHistory[k] = 1])
          /\ AscendingYears(summary)
    /\ pc \in {"detail", "history"} =>
          /\ AnnualEntries(detailedStrategy, winHistory)
          /\ AscendingYears(detailedStrategy)

\* What does hold of the annual breakdown: the entries are the right ones in
\* both evaluators; the worker's ascend in the order of strings and those of
\* analyzeStrategy in the order of localeCompare.
AnnualBreakdownEachInItsOrder ==
    /\ pc \in {"batch", "detail", "history"} =>
          /\ AnnualEntries(summary, [k \in 1..Len(draws) |-> workerWinHistory[k] = 1])
          /\ AscendingYears(summary)
    /\ pc \in {"detail", "history"} =>
          /\ AnnualEntries(detailedStrategy, winHistory)
          /\ AscendingYearsByCollation(detailedStrategy)

\* ------------------------------------------------------------------------
\* Properties of the draws of the App component
\* ------------------------------------------------------------------------
\* a <= b in the lexicographic order of strings
LexLessEq(a, b) == a = b \/ CodeUnitLess(a, b)

\* ds ascends by issue in the lexicographic order of strings
AscendingByIssue(ds) ==
    \A k \in 1..(Len(ds) - 1) : LexLessEq(ds[k].issue, ds[k + 1].issue)

\* ds ascends by issue in the order of localeCompare
AscendingByLocaleCompare(ds) ==
    \A k \in 1..(Len(ds) - 1) : localeCompare(ds[k].issue, ds[k + 1].issue) <= 0

\* C21: after any sequence of file loads, manual additions and resets the
\* draws of the application ascend by issue, each issue <= the next one in
\* the lexicographic order of strings, and so does every draw sequence handed
\* to a batch run.
C21_DrawsAscendByIssue ==
    /\ AscendingByIssue(draws)
    /\ \A r \in 1..Len(runs) : AscendingByIssue(runs[r].draws)

\* What does hold of the draws: they ascend in the order of localeCompare.
DrawsAscendByLocaleCompare ==
    /\ AscendingByLocaleCompare(draws)
    /\ \A r \in 1..Len(runs) : AscendingByLocaleCompare(runs[r].draws)

\* no batch run was started with an empty draw sequence
NoRunOnNoDraws == \A r \in 1..Len(runs) : runs[r].draws # <<>>

\* a file can be chosen: the page is not covered and no run is loading
FileInputUsable ==
    pc = "app" /\ alertShown = "none" /\ PageReachable /\ ~loading

\* choosing a file without a valid line is answered by the alert
NoDataIsReported ==
    FileInputUsable => ENABLED (handleDataLoaded /\ alertShown' = "noData")

\* the step that reports a file without draws
NoDataStep == alertShown = "none" /\ alertShown' = "noData"

NoDataChangesNothing ==
    NoDataStep => /\ runs' = runs
                  /\ draws' = draws
                  /\ results' = results
                  /\ loading' = loading

RECURSIVE PeriodsIn(_, _)
PeriodsIn(m, keys) ==
    IF keys = {} THEN 0
    ELSE LET k == CHOOSE k \in keys : TRUE
         IN  k * m[k] + PeriodsIn(m, keys \ {k})

\* the largest key of the histogram m, 0 if it has none
LargestKey(m) ==
    IF DOMAIN m = {} THEN 0 ELSE CHOOSE k \in DOMAIN m : \A j \in DOMAIN m : j <= k

HistogramsCoverPeriods(s) ==
    /\ PeriodsIn(s.streakCounts.win, DOMAIN s.streakCounts.win) = s.winDraws
    /\ PeriodsIn(s.streakCounts.loss, DOMAIN s.streakCounts.loss) = s.totalDraws - s.winDraws
    /\ s.maxWinStreak = LargestKey(s.streakCounts.win)
    /\ s.maxLoseStreak = LargestKey(s.streakCounts.loss)
    /\ \A k \in DOMAIN s.streakCounts.win : k >= 1 /\ s.streakCounts.win[k] >= 1
    /\ \A k \in DOMAIN s.streakCounts.loss : k >= 1 /\ s.streakCounts.loss[k] >= 1

\* C23: every maximal run is recorded once under its own length: the sum of
\* length * count over streakCounts.win is winDraws, over streakCounts.loss
\* it is totalDraws - winDraws, and maxWinStreak and maxLoseStreak are the
\* largest keys of the two histograms (0 if empty).
C23_HistogramsCoverPeriods ==
    /\ pc \in {"batch", "detail", "history"} => HistogramsCoverPeriods(summary)
    /\ pc \in {"detail", "history"} => HistogramsCoverPeriods(detailedStrategy)

\* two win runs of one length, a longer loss run between, a win run still open
C23_Witness ==
    /\ pc = "detail"
    /\ summary.currentStreak = 3
    /\ summary.streakCounts.win = (3 :> 2)
    /\ detailedStrategy.streakCounts.win = (3 :> 2)
    /\ detailedStrategy.maxLoseStreak = 4

\* the cumulative profit after period i; won[i + 1] tells whether period i is a win
CumulativeAfter(won, lookback, i) ==
    606 * Cardinality({k \in lookback..i : won[k + 1]})
    - 384 * Cardinality({k \in lookback..i : ~won[k + 1]})

\* the largest element of a non-empty set of integers
Largest(set) == CHOOSE x \in set : \A y \in set : y <= x

\* the peak of the cumulative profit over the periods up to and including i
PeakOverPeriods(won, lookback, i) ==
    Largest({CumulativeAfter(won, lookback, k) : k \in lookback..i})

\* the same peak when the profit 0 before the first period counts as well
PeakFromZero(won, lookback, i) ==
    Largest({0} \cup {CumulativeAfter(won, lookback, k) : k \in lookback..i})

\* C24 as stated: maxDrawdown is the maximum over the evaluated periods of
\* peak - current, current the cumulative profit after the period and peak
\* the peak of the cumulative profit over the periods up to and including it.
DrawdownOverPeriods(s, won) ==
    s.maxDrawdown
    = Largest({0} \cup {PeakOverPeriods(won, s.config.lookback, i)
                        - CumulativeAfter(won, s.config.lookback, i) :
                        i \in Periods(s.config.lookback)})

C24_DrawdownOverPeriods ==
    /\ pc \in {"batch", "detail", "history"} =>
          DrawdownOverPeriods(summary, [k \in 1..Len(draws) |-> workerWinHistory[k] = 1])
    /\ pc \in {"detail", "history"} =>
          DrawdownOverPeriods(detailedStrategy, winHistory)

\* C24, amended: the peak starts at 0, the profit before the first period, so
\* maxDrawdown is the maximum over the evaluated periods of
\* max(0, peak over the periods so far) - current.
DrawdownFromZero(s, won) ==
    s.maxDrawdown
    = Largest({0} \cup {PeakFromZero(won, s.config.lookback, i)
                        - CumulativeAfter(won, s.config.lookback, i) :
                        i \in Periods(s.config.lookback)})

C24_DrawdownFromZero ==
    /\ pc \in {"batch", "detail", "history"} =>
          DrawdownFromZero(summary, [k \in 1..Len(draws) |-> workerWinHistory[k] = 1])
    /\ pc \in {"detail", "history"} =>
          DrawdownFromZero(detailedStrategy, winHistory)

\* a drawdown of four losses from a peak above 0, followed by a recovery
C24_Witness ==
    /\ pc = "detail"
    /\ summary.maxDrawdown = 1536
    /\ detailedStrategy.maxDrawdown = 1536
    /\ summary.totalProfit > 1536
    /\ summary.currentStreak > 0

\* ------------------------------------------------------------------------
\* Properties of the loading flag, the reset and a failing run
\* ------------------------------------------------------------------------
\* the started runs that have not settled
UnsettledRuns == {r \in 1..Len(runs) : runs[r].phase \in {"timer", "worker"}}

\* C25: loading is true in every state in which a started batch run has not
\* yet settled, however many runs overlap, and false once all started runs
\* have settled (for a failed run: once its alert is closed and its finally
\* block has run).
C25_LoadingWhileAnyRunUnsettled ==
    /\ UnsettledRuns # {} => loading
    /\ (UnsettledRuns = {} /\ alertShown = "none") => ~loading

\* What does hold of the flag: it is false once all runs have settled, and
\* while it is true a run is unsettled or the alert of a failed run is open.
LoadingOnlyWhileARunIsUnsettled ==
    /\ (UnsettledRuns = {} /\ alertShown = "none") => ~loading
    /\ loading => (UnsettledRuns # {} \/ alertShown = "failed")
    /\ (Cardinality(UnsettledRuns) = 1 /\ Len(runs) = 1) => loading

\* C26: after the reset, which empties results and draws, results stays empty
\* until a file is loaded or a draw is added again, also when a batch run was
\* in flight at the reset: in every reachable state a non-empty results
\* implies a non-empty draws.
C26_ResultsImplyDraws == results.length # 0 => draws # <<>>

\* What does hold: results becomes non-empty over empty draws only by the
\* answer of a run that was in flight when the reset emptied the draws.
FilledWithoutDrawsByARunInFlight ==
    (results.length = 0 /\ results'.length # 0 /\ draws' = <<>>)
    => /\ draws = <<>>
       /\ \E r \in 1..Len(runs) :
             /\ runs[r].phase = "worker"
             /\ runs'[r].phase = "resolved"
             /\ runs[r].draws # <<>>

ResultsWithoutDrawsOnlyFromARunInFlight == [][FilledWithoutDrawsByARunInFlight]_vars

\* the step in which the worker of a run signals an error
FailStep ==
    \E r \in 1..Len(runs) : runs[r].phase = "worker" /\ runs'[r].phase = "rejected"

\* the failure is reported and leaves results and draws as they were
FailureIsReported ==
    FailStep => /\ alertShown' = "failed"
                /\ results' = results
                /\ draws' = draws

\* the only step from the report is the end of runAnalysis: loading is false
\* and results and draws are as they were
ReportEndsNotLoading ==
    alertShown = "failed" => /\ alertShown' = "none"
                             /\ loading' = FALSE
                             /\ results' = results
                             /\ draws' = draws

\* a rejected promise is not resolved afterwards
RejectedStaysRejected ==
    \A r \in 1..Len(runs) : runs[r].phase = "rejected" => runs'[r].phase = "rejected"

\* the report can always be closed, and a failed run is one whose worker ran
ReportCanEnd == alertShown = "failed" => ENABLED DismissAlert

\* C27: when a batch run fails, runAnalysis reports the failure, leaves
\* results and draws as they were before the outcome arrived and sets loading
\* to false; the promise of the run is rejected and never resolved afterwards.
C27_FailureLeavesStateAndEndsLoading ==
    /\ []ReportCanEnd
    /\ [][FailureIsReported /\ ReportEndsNotLoading /\ RejectedStaysRejected]_vars

\* a run failed over the results of a run before it, and its report is closed
C27_Witness ==
    /\ alertShown = "none"
    /\ ~loading
    /\ Len(runs) = 2
    /\ runs[1].phase = "resolved"
    /\ runs[2].phase = "rejected"
    /\ results = runs[1].stats
    /\ draws = runs[2].draws
    /\ draws # runs[1].draws

\* ------------------------------------------------------------------------
\* Properties of the survival simulation
\* ------------------------------------------------------------------------
\* the value recorded for the break at period i of N draws
RecordedAfterBreak(v, won, i) ==
    LET N == Len(won)
    IN  /\ 0 <= v /\ v <= N - 1 - i
        /\ i = N - 1 => v = 0
        /\ \A n \in 1..(v - 1) : RunningTotal(won, i, n) > -1000
        /\ v < N - 1 - i => (v >= 3 /\ RunningTotal(won, i, v) <= -1000)

SimulationStartsAfterBreak(s, won) ==
    LET breaks == AscendingSeq(BreakPoints(won, s.config.lookback))
    IN  /\ Len(s.survivalStats.periods) = Len(breaks)
        /\ \A k \in 1..Len(breaks) :
              RecordedAfterBreak(s.survivalStats.periods[k], won, breaks[k])

\* C28: the loss that breaks the win run is neither added to the running
\* total nor counted: for a break at index i the simulation covers the
\* periods i+1, i+2, ...; a break on the last draw records 0, every recorded
\* value is at most N-1-i, and a value below N-1-i is at least 3 and marks
\* the first period at which the running total is <= -1000.
C28_SimulationStartsAfterBreak ==
    /\ pc \in {"batch", "detail", "history"} =>
          SimulationStartsAfterBreak(summary,
                                     [k \in 1..Len(draws) |-> workerWinHistory[k] = 1])
    /\ pc \in {"detail", "history"} =>
          SimulationStartsAfterBreak(detailedStrategy, winHistory)

\* a break followed by three losses and more periods, and a break with two
\* periods left
C28_Witness ==
    /\ pc = "detail"
    /\ Len(draws) = 26
    /\ AscendingSeq(BreakPoints(winHistory, 1)) = <<10, 23>>
    /\ summary.survivalStats.periods = <<3, 2>>
    /\ detailedStrategy.survivalStats.periods = <<3, 2>>

\* the number of recorded win runs of length 9 or more
LongWinRuns(s) ==
    SumCounts(s.streakCounts.win, {len \in DOMAIN s.streakCounts.win : len >= 9})

SurvivalCountFromHistogram(s) ==
    /\ s.survivalStats.count
       = LongWinRuns(s) - (IF s.currentStreak >= 9 THEN 1 ELSE 0)
    /\ s.survivalStats.count = Len(s.survivalStats.periods)

\* C29: survivalStats.count is the number of recorded win runs of length >= 9
\* minus one if the still-open final run is a win run of length >= 9, and it
\* is the length of survivalStats.periods.
C29_SurvivalCountFromHistogram ==
    /\ pc \in {"batch", "detail", "history"} => SurvivalCountFromHistogram(summary)
    /\ pc \in {"detail", "history"} => SurvivalCountFromHistogram(detailedStrategy)

\* two recorded win runs of 9 or more, the second still open: one break
C29_Witness ==
    /\ pc = "detail"
    /\ summary.currentStreak = 10
    /\ LongWinRuns(summary) = 2
    /\ summary.survivalStats.count = 1
    /\ detailedStrategy.survivalStats.count = 1
    /\ LongWinRuns(detailedStrategy) = 2

\* ------------------------------------------------------------------------
\* Properties of generateStrategies
\* ------------------------------------------------------------------------
\* the configuration the worker builds at the loop indices of a push of
\* generateStrategies
WorkerConfigAt(p) ==
    W_Config(formulas[p.call + 1], targetGroups[p.t + 1], OFFSETS[p.o + 1],
             LOOKBACKS[p.l + 1])

SameConfiguration(c, w) ==
    /\ c.id = w.id
    /\ c.type = TypeStr(w.type)
    /\ c.inputIndices = w.inputIndices
    /\ c.operators = w.operators
    /\ c.targetIndices = w.targetIndices
    /\ c.offset = w.offset
    /\ c.lookback = w.lookback
    /\ c.name = w.name

\* the position of a push in the list of generateStrategies (formula, target
\* group, offset, lookback) and of the same configuration in the worker's
\* list (formula, lookback, offset, target group)
PositionInStrategies(p) ==
    ((p.call * Len(targetGroups) + p.t) * Len(OFFSETS) + p.o) * Len(LOOKBACKS) + p.l

PositionInResults(p) ==
    ((p.call * Len(LOOKBACKS) + p.l) * Len(OFFSETS) + p.o) * Len(targetGroups) + p.t

\* C30: generateStrategies and the worker's batch loop enumerate the same
\* configuration space: every entry of generateStrategies is the worker's
\* configuration of the same formula, target group, offset and lookback, with
\* the same id, type, inputIndices, operators, targetIndices, offset,
\* lookback and name; both lists have 204600 entries and differ only in order.
C30_SameConfigurationSpace ==
    /\ Len(addVariationsCalls) = Len(formulas)
    /\ (pc = "gen" /\ strategies.length > 0) =>
          /\ SameConfiguration(strategies.last, WorkerConfigAt(strategies.pushed))
          /\ strategies.length = PositionInStrategies(strategies.pushed) + 1
          /\ PositionInResults(strategies.pushed) \in 0..204599
    /\ (pc = "gen" /\ strategies.call = Len(addVariationsCalls)) =>
          /\ strategies.length = 204600
          /\ strategies.length
             = Len(formulas) * Len(LOOKBACKS) * Len(OFFSETS) * Len(targetGroups)

\* the last entry of generateStrategies, which is the worker's entry 204591
C30_Witness ==
    /\ pc = "gen"
    /\ strategies.length = 204600
    /\ strategies.last.id
       = <<"5", "-", "P", "o", "s", "-", "0", "1", "2", "3", "4", "-", "*", "*", "*", "*",
           "-", "T", "2", "3", "4", "-", "K", "4", "-", "L", "1", "2">>
    /\ PositionInResults(strategies.pushed) = 204599
    /\ strategies.last.lookback = 12

====
